---- MODULE Spec2Model ----
(***************************************************************************)
(* A model of tcplb, a TCP load balancer: the per-client reserver          *)
(* (lib/limiter), the handler pipeline (lib/forwarder/handler.go), the     *)
(* retry dialer with its least-connection policy (lib/dialer) and the      *)
(* health belief tracker (lib/healthcheck).                                *)
(*                                                                         *)
(* All specifications share the variables; the first of them are          *)
(*   SpecReserver  goroutines that loop TryReserve / ReleaseReservation on *)
(*                 one shared UniformlyBoundedClientReserver, every        *)
(*                 statement under the mutex being one step;               *)
(*   SpecMisuse    SpecReserver plus callers that release a reservation    *)
(*                 they do not hold;                                       *)
(*   Spec          the handler stack NewServer wires, one goroutine per    *)
(*                 accepted connection;                                    *)
(*   SpecHealth    Spec for one connection, with health reports arriving   *)
(*                 at the belief tracker while it is handled.              *)
(* The specifications of the single components (authorizer, dialer,        *)
(* policy, tracker, probe pool, Forward and its copy workers) are defined  *)
(* with their initial states further down.                                 *)
(***************************************************************************)
EXTENDS Integers, FiniteSets, Sequences, TLC

(***************************************************************************)
(* Bounds of the model.                                                    *)
(***************************************************************************)
\* the per-client limit handed to NewUniformlyBoundedClientReserver
MaxReservationsPerClient == 2

\* goroutines per client in SpecReserver and SpecMisuse; more than the limit
WorkersPerClient == MaxReservationsPerClient + 1

\* client connections the listener accepts in one run of Spec
NumConns == 3

\* the longest list of groups, or of upstream groups, in a configuration of
\* SpecAuthz
MaxListLen == 2

\* failed dial attempts one DialBestUpstream call retries in the
\* specifications of the dialer alone
MaxDialAttempts == 2

\* Close calls on one returned connection in SpecReclose
MaxCloses == 2

\* calls of ProbePool.Start and of ProbePool.Stop, and probes of the pool
MaxStarts == 2

MaxStops == 2

MaxProbes == 3

\* IdleTimeout periods of one Forward call
MaxPeriods == 3

\* bytes a peer of Forward sends, and bytes one io.Copy call reads
MaxBytes == 2

MaxChunk == 1

\* connections the policy's tests open to one upstream
MaxOpen == 2

(***************************************************************************)
(* Values.                                                                 *)
(***************************************************************************)
\* the ClientIDs the worker goroutines of the limiter's tests reserve for
Clients == {"alice", "bob"}

\* the ClientIDs authentication can establish; eve holds a valid certificate
\* and is no authorized client
AuthnClients == {"alice", "eve"}

Upstreams == {"u1", "u2"}

Conns == 1..NumConns

NoClient == "no client"

NoUpstream == "no upstream"

Workers == Clients \X (1..WorkersPerClient)

\* the ClientID a worker goroutine was started with
WorkerClient(w) == w[1]

NoHolder == <<"nobody", 0>>

\* error values of package limiter, and the outcomes of a call
ErrNil == "nil"

MaxReservationsExceeded == "maximum client reservations exceeded"

\* the error the limiter's test expects of a release without a reservation
NoReservationExists == "no reservation exists"

Panicked == "panic: UniformlyBoundedClientReserver: internal invariant failure"

NoResult == "none"

VARIABLES
    resByClient,    \* UniformlyBoundedClientReserver.resByClient: map[ClientID]int64
    mu,             \* UniformlyBoundedClientReserver.mu: the goroutine holding it
    wpc,            \* worker goroutine -> where it is in its loop
    wn,             \* worker goroutine -> the local n of the method it runs
    wres,           \* worker goroutine -> what the call it runs is about to return
    wcall,          \* worker goroutine -> the method it runs (kept by a panic)
    pending,        \* client connections not yet accepted by Server.Serve
    pc,             \* connection -> where its handler goroutine is
    cid,            \* connection -> the ClientID bound into its context
    cands,          \* connection -> the UpstreamSet bound into its context
    up,             \* connection -> the upstream DialBestUpstream chose / dialed
    path,           \* connection -> the exit path its handler took
    log,            \* connection -> what its handler did so far (history)
    crashed,        \* an unrecovered panic ended the process
    connectionCount,        \* LeastConnectionDialPolicy.connectionCount
    beliefStateByUpstream,  \* BeliefHealthTracker.beliefStateByUpstream
    events,         \* caller of DialBestUpstream -> the calls its policy received
    polCands,       \* the candidates of the last ChooseBestUpstream call
    polChoice,      \* what that call returned
    polSeen,        \* the connection counts when that call was made
    azConfig,       \* Authorizer.config
    azClient,       \* the ClientID of the last AuthorizedUpstreams call
    azResult,       \* what that call returned
    reports,        \* the reports sent to a BeliefHealthTracker (history)
    pool,           \* a ProbePool, its callers and its probe workers
    fwd,            \* one ForwardingSupervisor.Forward call and its two workers
    stream          \* the bytes that call's workers read and wrote (history)

workerVars == <<mu, wpc, wn, wres, wcall>>

connVars == <<pending, pc, cid, cands, up, path, log, crashed>>

pipelineVars == <<pending, pc, cid, cands, up, path, log, crashed, connectionCount>>

\* the variables of the specifications that exercise one component alone
componentVars == <<reports, pool, fwd, stream>>

unitVarsButReports == <<events, polCands, polChoice, polSeen, azConfig, azClient,
                        azResult, pool, fwd, stream>>

unitVars == <<events, polCands, polChoice, polSeen, azConfig, azClient, azResult,
              componentVars>>

vars == <<resByClient, mu, wpc, wn, wres, wcall, pending, pc, cid, cands, up,
          path, log, crashed, connectionCount, beliefStateByUpstream,
          events, polCands, polChoice, polSeen, azConfig, azClient, azResult,
          reports, pool, fwd, stream>>

(***************************************************************************)
(* Go maps: a missing key reads as the zero value.                         *)
(***************************************************************************)
EmptyMap == [k \in {} |-> 0]

Get(m, k) == IF k \in DOMAIN m THEN m[k] ELSE 0

Put(m, k, v) == [x \in (DOMAIN m) \cup {k} |-> IF x = k THEN v ELSE m[x]]

Delete(m, k) == [x \in (DOMAIN m) \ {k} |-> m[x]]

(***************************************************************************)
(* lib/limiter/reservation.go                                              *)
(***************************************************************************)
\* sanityCheck panics unless 0 <= n <= MaxReservationsPerClient; TRUE = no panic
sanityCheck(n) == ~(n < 0 \/ n > MaxReservationsPerClient)

\* variants of the limit test: one that lets the count pass the limit, one
\* that refuses a client before it holds the limit
LimitReached_offByOne(n) == n > MaxReservationsPerClient

LimitReached_early(n) == n + 1 >= MaxReservationsPerClient

\* TryReserve, line 188: the limit test
LimitReached(n) == n >= MaxReservationsPerClient

\* a variant of the release that keeps the key of a client at zero
ReleaseStore_keepsKey(m, c, n) == Put(m, c, n - 1)

\* ReleaseReservation, lines 203-207: n = n - 1; store; delete the key at zero
ReleaseStore(m, c, n) ==
    IF n - 1 = 0 THEN Delete(Put(m, c, n - 1), c) ELSE Put(m, c, n - 1)

\* a variant without mutual exclusion
MuFree_noMutex == TRUE

\* b.mu.Lock() returns only when no goroutine holds the mutex
MuFree == mu = NoHolder

\* --- TryReserve(ctx, c), one step per statement ---
TR_Lock(w) ==
    /\ wpc[w] = "idle"
    /\ MuFree
    /\ mu' = w
    /\ wpc' = [wpc EXCEPT ![w] = "tr_read"]
    /\ wcall' = [wcall EXCEPT ![w] = "TryReserve"]
    /\ wres' = [wres EXCEPT ![w] = NoResult]
    /\ UNCHANGED <<resByClient, wn>>

\* n := b.resByClient[c]; b.sanityCheck(n); if n >= Max { return MaxReservationsExceeded }
TR_Read(w) ==
    /\ wpc[w] = "tr_read"
    /\ LET n == Get(resByClient, WorkerClient(w)) IN
        /\ wn' = [wn EXCEPT ![w] = n]
        /\ IF ~sanityCheck(n)
           THEN /\ wpc' = [wpc EXCEPT ![w] = "panicked"]
                /\ wres' = [wres EXCEPT ![w] = Panicked]
                /\ mu' = IF mu = w THEN NoHolder ELSE mu
           ELSE IF LimitReached(n)
           THEN /\ wpc' = [wpc EXCEPT ![w] = "tr_unlock"]
                /\ wres' = [wres EXCEPT ![w] = MaxReservationsExceeded]
                /\ mu' = mu
           ELSE /\ wpc' = [wpc EXCEPT ![w] = "tr_write"]
                /\ wres' = wres
                /\ mu' = mu
    /\ UNCHANGED <<resByClient, wcall>>

\* b.resByClient[c] = n + 1; b.sanityCheck(n); return nil
TR_Write(w) ==
    /\ wpc[w] = "tr_write"
    /\ resByClient' = Put(resByClient, WorkerClient(w), wn[w] + 1)
    /\ IF ~sanityCheck(wn[w])
       THEN /\ wpc' = [wpc EXCEPT ![w] = "panicked"]
            /\ wres' = [wres EXCEPT ![w] = Panicked]
            /\ mu' = IF mu = w THEN NoHolder ELSE mu
       ELSE /\ wpc' = [wpc EXCEPT ![w] = "tr_unlock"]
            /\ wres' = [wres EXCEPT ![w] = ErrNil]
            /\ mu' = mu
    /\ UNCHANGED <<wn, wcall>>

\* the deferred b.mu.Unlock(), and the caller's branch on err: a worker that
\* got nil holds a reservation, one that was limited starts its next iteration
TR_Unlock(w) ==
    /\ wpc[w] = "tr_unlock"
    /\ mu' = IF mu = w THEN NoHolder ELSE mu
    /\ wpc' = [wpc EXCEPT ![w] = IF wres[w] = ErrNil THEN "holding" ELSE "idle"]
    /\ wn' = [wn EXCEPT ![w] = 0]
    /\ wres' = [wres EXCEPT ![w] = NoResult]
    /\ wcall' = [wcall EXCEPT ![w] = "none"]
    /\ UNCHANGED resByClient

\* --- ReleaseReservation(ctx, c), one step per statement ---
RL_Begin(w) ==
    /\ MuFree
    /\ mu' = w
    /\ wpc' = [wpc EXCEPT ![w] = "rl_read"]
    /\ wcall' = [wcall EXCEPT ![w] = "ReleaseReservation"]
    /\ wres' = [wres EXCEPT ![w] = NoResult]
    /\ UNCHANGED <<resByClient, wn>>

\* issued by the holder of a successful reservation
RL_Lock(w) ==
    /\ wpc[w] = "holding"
    /\ RL_Begin(w)

\* issued by a caller that holds no reservation
RL_LockFictitious(w) ==
    /\ wpc[w] = "idle"
    /\ RL_Begin(w)

\* n := b.resByClient[c]; b.sanityCheck(n)
RL_Read(w) ==
    /\ wpc[w] = "rl_read"
    /\ LET n == Get(resByClient, WorkerClient(w)) IN
        /\ wn' = [wn EXCEPT ![w] = n]
        /\ IF ~sanityCheck(n)
           THEN /\ wpc' = [wpc EXCEPT ![w] = "panicked"]
                /\ wres' = [wres EXCEPT ![w] = Panicked]
                /\ mu' = IF mu = w THEN NoHolder ELSE mu
           ELSE /\ wpc' = [wpc EXCEPT ![w] = "rl_write"]
                /\ wres' = wres
                /\ mu' = mu
    /\ UNCHANGED <<resByClient, wcall>>

\* n = n - 1; b.resByClient[c] = n; if n == 0 { delete }; b.sanityCheck(n); return nil
RL_Write(w) ==
    /\ wpc[w] = "rl_write"
    /\ resByClient' = ReleaseStore(resByClient, WorkerClient(w), wn[w])
    /\ wn' = [wn EXCEPT ![w] = wn[w] - 1]
    /\ IF ~sanityCheck(wn[w] - 1)
       THEN /\ wpc' = [wpc EXCEPT ![w] = "panicked"]
            /\ wres' = [wres EXCEPT ![w] = Panicked]
            /\ mu' = IF mu = w THEN NoHolder ELSE mu
       ELSE /\ wpc' = [wpc EXCEPT ![w] = "rl_unlock"]
            /\ wres' = [wres EXCEPT ![w] = ErrNil]
            /\ mu' = mu
    /\ UNCHANGED wcall

RL_Unlock(w) ==
    /\ wpc[w] = "rl_unlock"
    /\ mu' = IF mu = w THEN NoHolder ELSE mu
    /\ wpc' = [wpc EXCEPT ![w] = "idle"]
    /\ wn' = [wn EXCEPT ![w] = 0]
    /\ wres' = [wres EXCEPT ![w] = NoResult]
    /\ wcall' = [wcall EXCEPT ![w] = "none"]
    /\ UNCHANGED resByClient

\* the worker's loop ends between iterations
W_Finish(w) ==
    /\ wpc[w] = "idle"
    /\ wpc' = [wpc EXCEPT ![w] = "finished"]
    /\ UNCHANGED <<resByClient, mu, wn, wres, wcall>>

(***************************************************************************)
(* The same two methods as other goroutines see them: b.mu is held from    *)
(* the first statement to the return, so a call is one step.               *)
(***************************************************************************)
TryReserve(m, c) ==
    LET n == Get(m, c) IN
    IF ~sanityCheck(n) THEN [err |-> Panicked, m |-> m]
    ELSE IF LimitReached(n) THEN [err |-> MaxReservationsExceeded, m |-> m]
    ELSE [err |-> ErrNil, m |-> Put(m, c, n + 1)]

ReleaseReservation(m, c) ==
    LET n == Get(m, c) IN
    IF ~sanityCheck(n) THEN [err |-> Panicked, m |-> m]
    ELSE IF ~sanityCheck(n - 1) THEN [err |-> Panicked, m |-> ReleaseStore(m, c, n)]
    ELSE [err |-> ErrNil, m |-> ReleaseStore(m, c, n)]

(***************************************************************************)
(* lib/authz: the static authorizer, configured as NewServer configures it *)
(***************************************************************************)
\* cfg.Authorization.AuthorizedClients
AuthorizedClients == {"alice"}

Range(seq) == {seq[i] : i \in DOMAIN seq}

GroupsByClientID == [c \in AuthorizedClients |-> <<"group ur">>]

UpstreamGroupsByGroup == [g \in {"group ur"} |-> <<"upstream group ur">>]

UpstreamsByUpstreamGroup == [ug \in {"upstream group ur"} |-> Upstreams]

\* Authorizer.AuthorizedUpstreams: the union over the client's groups and their
\* upstream groups; a key missing from a map contributes nothing
AuthorizedUpstreams(c) ==
    IF c \notin DOMAIN GroupsByClientID THEN {}
    ELSE UNION { IF g \notin DOMAIN UpstreamGroupsByGroup THEN {}
                 ELSE UNION { IF ug \notin DOMAIN UpstreamsByUpstreamGroup THEN {}
                              ELSE UpstreamsByUpstreamGroup[ug]
                              : ug \in Range(UpstreamGroupsByGroup[g]) }
                 : g \in Range(GroupsByClientID[c]) }

\* the keys a configuration of SpecAuthz is drawn from
Groups == {"g1", "g2"}

UpstreamGroups == {"ug1", "ug2"}

\* a variant of UnionUpdate that keeps only the last set
UnionUpdate_overwrite(acc, rhs) == rhs

\* core.UnionUpdate: adds the members of rhs to acc and returns acc
UnionUpdate(acc, rhs) == acc \cup rhs

\* Authorizer.AuthorizedUpstreams, lines 56-62: the loop over upstreamGroups
RECURSIVE LoopUpstreamGroups(_, _, _)
LoopUpstreamGroups(config, upstreamGroups, result) ==
    IF upstreamGroups = <<>> THEN result
    ELSE LET ug == Head(upstreamGroups) IN
         LoopUpstreamGroups(config, Tail(upstreamGroups),
            IF ug \notin DOMAIN config.UpstreamsByUpstreamGroup THEN result
            ELSE UnionUpdate(result, config.UpstreamsByUpstreamGroup[ug]))

\* Authorizer.AuthorizedUpstreams, lines 51-63: the loop over groups
RECURSIVE LoopGroups(_, _, _)
LoopGroups(config, groups, result) ==
    IF groups = <<>> THEN result
    ELSE LET g == Head(groups) IN
         LoopGroups(config, Tail(groups),
            IF g \notin DOMAIN config.UpstreamGroupsByGroup THEN result
            ELSE LoopUpstreamGroups(config, config.UpstreamGroupsByGroup[g], result))

\* Authorizer.AuthorizedUpstreams for any configuration, computed as the
\* method computes it: result starts empty and grows by UnionUpdate
StaticAuthorizer(config, c) ==
    IF c \notin DOMAIN config.GroupsByClientID THEN {}
    ELSE LoopGroups(config, config.GroupsByClientID[c], {})

\* a call of a.AuthorizedUpstreams(ctx, c); the method writes to its local
\* result only
AuthzCall(c) ==
    /\ azClient' = c
    /\ azResult' = StaticAuthorizer(azConfig, c)
    /\ UNCHANGED azConfig
    /\ UNCHANGED <<events, polCands, polChoice, polSeen, componentVars>>
    /\ UNCHANGED <<resByClient, workerVars, pipelineVars, beliefStateByUpstream>>

(***************************************************************************)
(* lib/dialer: LeastConnectionDialPolicy                                   *)
(***************************************************************************)
NoCandidateUpstreams == "no candidate upstreams"

\* a variant that returns whichever candidate the scan meets first
ChooseBestUpstream_first(count, candidates) ==
    IF candidates = {}
    THEN {[upstream |-> NoUpstream, err |-> NoCandidateUpstreams]}
    ELSE {[upstream |-> u, err |-> ErrNil] : u \in candidates}

\* ChooseBestUpstream: a linear scan that keeps the first strict minimum. The
\* iteration order of a Go map is unspecified, so every candidate of minimal
\* count can be the one returned.
ChooseBestUpstream(count, candidates) ==
    IF candidates = {}
    THEN {[upstream |-> NoUpstream, err |-> NoCandidateUpstreams]}
    ELSE {[upstream |-> u, err |-> ErrNil] :
            u \in {x \in candidates :
                     \A v \in candidates : Get(count, x) <= Get(count, v)}}

\* DialSucceeded: p.connectionCount[upstream]++
DialSucceeded(count, u) == Put(count, u, Get(count, u) + 1)

\* variant: the close notification is ignored by the policy
ConnectionClosed_ignored(count, u) == count

\* ConnectionClosed: p.connectionCount[upstream]--
ConnectionClosed(count, u) == Put(count, u, Get(count, u) - 1)

(***************************************************************************)
(* lib/healthcheck: BeliefHealthTracker                                    *)
(***************************************************************************)
HEALTHY == "HEALTHY"

UNHEALTHY == "UNHEALTHY"

CheckSuccess == "CheckSuccess"

CheckFail == "CheckFail"

\* Config of the tracker
Prior == HEALTHY

MinFailuresToInferUnhealthy == 2

MinSuccessesToInferHealthy == 2

\* uint8 arithmetic of the counters
Uint8(x) == x % 256

min(a, b) == IF a < b THEN a ELSE b

\* NewBeliefHealthTracker: one belief state per registered upstream
NewBeliefHealthTracker(upstreams) ==
    [u \in upstreams |-> [state |-> Prior, failures |-> 0, successes |-> 0]]

\* upstreamBeliefState.updateBeliefLocked
updateBeliefLocked(s, result) ==
    IF result = CheckSuccess
    THEN LET succ == min(Uint8(s.successes + 1), MinSuccessesToInferHealthy) IN
         [state |-> IF succ >= MinSuccessesToInferHealthy THEN HEALTHY ELSE s.state,
          failures |-> 0,
          successes |-> succ]
    ELSE LET fail == min(Uint8(s.failures + 1), MinFailuresToInferUnhealthy) IN
         [state |-> IF fail >= MinFailuresToInferUnhealthy THEN UNHEALTHY ELSE s.state,
          failures |-> fail,
          successes |-> 0]

\* BeliefHealthTracker.HealthyUpstreams
HealthyUpstreams(belief, candidates) ==
    {u \in candidates : u \in DOMAIN belief /\ belief[u].state = HEALTHY}

\* BeliefHealthTracker.ReportUpstreamHealth, called by a probe worker
ReportUpstreamHealth(u, result) ==
    /\ ~crashed
    /\ beliefStateByUpstream' =
          IF u \notin DOMAIN beliefStateByUpstream THEN beliefStateByUpstream
          ELSE [beliefStateByUpstream EXCEPT
                  ![u] = updateBeliefLocked(beliefStateByUpstream[u], result)]
    /\ UNCHANGED <<resByClient, workerVars, pipelineVars>>

(***************************************************************************)
(* lib/forwarder/handler.go: the handler stack NewServer composes,         *)
(*   ConnCloser > Authentication > RateLimiting > AuthorizedUpstreams >    *)
(*   Forwarding,                                                           *)
(* run by one goroutine per accepted connection.  pc[k] says which         *)
(* statement connection k's goroutine executes next.                       *)
(***************************************************************************)
NewLog ==
    [reserves |-> 0,        \* TryReserve calls that returned nil
     releases |-> 0,        \* ReleaseReservation calls
     authzCalls |-> 0,      \* Authorizer.AuthorizedUpstreams calls
     dialerCalls |-> 0,     \* BestUpstreamDialer.DialBestUpstream calls
     policyCalled |-> FALSE,    \* DialPolicy.ChooseBestUpstream was called
     dialed |-> FALSE,      \* InnerDialer.DialUpstream was called
     upConns |-> 0,         \* upstream connections established
     upCloses |-> 0,        \* Close calls on the upstream connection
     forwards |-> 0,        \* Forwarder.Forward calls
     clientCloses |-> 0,    \* Close calls on the client connection
     reservedFor |-> NoClient,  \* the ClientID of the successful TryReserve
     releasedFor |-> NoClient,  \* the ClientID of the ReleaseReservation
     panicValue |-> NoResult,   \* the value of the panic the handler raised
     recovers |-> 0,        \* runs of RecovererHandler's deferred function
     records |-> <<>>,      \* the LogRecords RecovererHandler logged
     beliefAtChoice |-> "none"] \* (history) the tracker's belief about the
                                \* upstream last chosen, when it was chosen

\* variants: a cleanup written after the inner call, which a panic skips
CloseClientAfterCall(panicking) == ~panicking

ReleaseAfterCall(panicking) == ~panicking

CloseUpstreamAfterCall(panicking) == ~panicking

\* a deferred call runs when the function returns and when it panics
DeferredCloseClientRuns(panicking) == TRUE

DeferredReleaseRuns(panicking) == TRUE

DeferredCloseUpstreamRuns(panicking) == TRUE

\* a variant that lets a refused reservation through
RateLimitAdmits_always(err) == err # Panicked

\* RateLimitingHandler.Handle, line 126: the inner handler runs only if err == nil
RateLimitAdmits(err) == err = ErrNil

\* a variant without the emptiness test
NotAuthorized_never(authzUpstreams) == FALSE

\* AuthorizedUpstreamsHandler.Handle, line 172: len(authzUpstreams) == 0
NotAuthorized(authzUpstreams) == Cardinality(authzUpstreams) = 0

\* a variant that offers the dialer every upstream of the server
DialCandidates_allUpstreams(ctxUpstreams, belief) == Upstreams

\* ForwardingHandler.Handle, lines 200-205: the candidates handed to
\* DialBestUpstream are the upstreams found in the context, as they are
DialCandidates(ctxUpstreams, belief) == ctxUpstreams

\* a variant that enters the retry loop with nothing to choose from
NoCandidates_never(candidates) == FALSE

\* RetryDialer.DialBestUpstream, line 681: len(candidates) == 0
NoCandidates(candidates) == Cardinality(candidates) = 0

Min(S) == CHOOSE x \in S : \A y \in S : x <= y

Panicking(k) == path[k] = "panic"

\* the value a Forwarder passes to panic()
ForwardPanic == "panic: Forward"

\* Server.Serve: Accept, then go s.Handler.Handle(ctx, conn); the goroutine
\* enters ConnCloserHandler.Handle, which defers conn.Close()
Accept(k) ==
    /\ ~crashed
    /\ pending # {}
    /\ k = Min(pending)
    /\ pending' = pending \ {k}
    /\ pc' = [pc EXCEPT ![k] = "authn"]
    /\ UNCHANGED <<cid, cands, up, path, log, crashed>>
    /\ UNCHANGED <<resByClient, workerVars, connectionCount, beliefStateByUpstream>>

\* MTLSAuthenticationHandler.Handle: a failed handshake or ClientID extraction
\* returns; otherwise the ClientID is bound into the context of the inner handler
Authenticate(k) ==
    /\ ~crashed
    /\ pc[k] = "authn"
    /\ \/ /\ pc' = [pc EXCEPT ![k] = "close_client"]
          /\ path' = [path EXCEPT ![k] = "authn_failed"]
          /\ cid' = cid
       \/ \E c \in AuthnClients :
            /\ pc' = [pc EXCEPT ![k] = "ratelimit"]
            /\ cid' = [cid EXCEPT ![k] = c]
            /\ path' = path
    /\ UNCHANGED <<pending, cands, up, log, crashed>>
    /\ UNCHANGED <<resByClient, workerVars, connectionCount, beliefStateByUpstream>>

\* RateLimitingHandler.Handle up to the call of the inner handler
RateLimit(k) ==
    /\ ~crashed
    /\ pc[k] = "ratelimit"
    /\ LET r == TryReserve(resByClient, cid[k]) IN
        /\ resByClient' = r.m
        /\ log' = IF r.err = ErrNil
                  THEN [log EXCEPT ![k].reserves = @ + 1, ![k].reservedFor = cid[k]]
                  ELSE IF r.err = Panicked
                  THEN [log EXCEPT ![k].panicValue = Panicked]
                  ELSE log
        /\ IF r.err = Panicked
           THEN /\ pc' = [pc EXCEPT ![k] = "close_client"]
                /\ path' = [path EXCEPT ![k] = "panic"]
                /\ cid' = [cid EXCEPT ![k] = NoClient]
           ELSE IF RateLimitAdmits(r.err)
           THEN /\ pc' = [pc EXCEPT ![k] = "authz"]
                /\ path' = path
                /\ cid' = cid
           ELSE /\ pc' = [pc EXCEPT ![k] = "close_client"]
                /\ path' = [path EXCEPT ![k] = "rate_limited"]
                /\ cid' = [cid EXCEPT ![k] = NoClient]
    /\ UNCHANGED <<pending, cands, up, crashed>>
    /\ UNCHANGED <<workerVars, connectionCount, beliefStateByUpstream>>

\* AuthorizedUpstreamsHandler.Handle, given what h.Authorizer.AuthorizedUpstreams
\* returned for the client of the connection
AuthorizeWith(k, authzUpstreams) ==
    /\ ~crashed
    /\ pc[k] = "authz"
    /\ log' = [log EXCEPT ![k].authzCalls = @ + 1]
    /\  IF NotAuthorized(authzUpstreams)
        THEN /\ pc' = [pc EXCEPT ![k] = "release"]
             /\ path' = [path EXCEPT ![k] = "unauthorized"]
             /\ cands' = cands
        ELSE /\ pc' = [pc EXCEPT ![k] = "dial_begin"]
             /\ cands' = [cands EXCEPT ![k] = authzUpstreams]
             /\ path' = path
    /\ UNCHANGED <<pending, cid, up, crashed>>
    /\ UNCHANGED <<resByClient, workerVars, connectionCount, beliefStateByUpstream>>

\* AuthorizedUpstreamsHandler.Handle with the authorizer the server builds
Authorize(k) == AuthorizeWith(k, AuthorizedUpstreams(cid[k]))

\* AuthorizedUpstreamsHandler.Handle with a static authorizer of the
\* configuration in azConfig
AuthorizeConfigured(k) == AuthorizeWith(k, StaticAuthorizer(azConfig, cid[k]))

\* ForwardingHandler.Handle calls DialBestUpstream, which returns
\* NoCandidateUpstreams for an empty candidate set before it asks the policy
DialBegin(k) ==
    /\ ~crashed
    /\ pc[k] = "dial_begin"
    /\ log' = [log EXCEPT ![k].dialerCalls = @ + 1]
    /\ LET candidates == DialCandidates(cands[k], beliefStateByUpstream) IN
        IF NoCandidates(candidates)
        THEN /\ pc' = [pc EXCEPT ![k] = "release"]
             /\ path' = [path EXCEPT ![k] = "dial_error"]
             /\ cands' = [cands EXCEPT ![k] = {}]
        ELSE /\ pc' = [pc EXCEPT ![k] = "choose"]
             /\ cands' = [cands EXCEPT ![k] = candidates]
             /\ path' = path
    /\ UNCHANGED <<pending, cid, up, crashed>>
    /\ UNCHANGED <<resByClient, workerVars, connectionCount, beliefStateByUpstream>>

\* RetryDialer.DialBestUpstream, the head of the loop: d.Policy.ChooseBestUpstream,
\* and on a choice the call of d.InnerDialer.DialUpstream(dialCtx, upstream)
Choose(k) ==
    /\ ~crashed
    /\ pc[k] = "choose"
    /\ \E r \in ChooseBestUpstream(connectionCount, cands[k]) :
        IF r.err # ErrNil
        THEN /\ pc' = [pc EXCEPT ![k] = "release"]
             /\ path' = [path EXCEPT ![k] = "dial_error"]
             /\ cands' = [cands EXCEPT ![k] = {}]
             /\ log' = [log EXCEPT ![k].policyCalled = TRUE]
             /\ up' = up
        ELSE /\ pc' = [pc EXCEPT ![k] = "dialing"]
             /\ up' = [up EXCEPT ![k] = r.upstream]
             /\ log' = [log EXCEPT ![k].policyCalled = TRUE, ![k].dialed = TRUE,
                                   ![k].beliefAtChoice =
                                        beliefStateByUpstream[r.upstream].state]
             /\ UNCHANGED <<path, cands>>
    /\ UNCHANGED <<pending, cid, crashed>>
    /\ UNCHANGED <<resByClient, workerVars, connectionCount, beliefStateByUpstream>>

\* d.InnerDialer.DialUpstream returned a connection
DialOk(k) ==
    /\ ~crashed
    /\ pc[k] = "dialing"
    /\ pc' = [pc EXCEPT ![k] = "connected"]
    /\ log' = [log EXCEPT ![k].upConns = @ + 1]
    /\ UNCHANGED <<pending, cid, cands, up, path, crashed>>
    /\ UNCHANGED <<resByClient, workerVars, connectionCount, beliefStateByUpstream>>

\* the dial failed and dialCtx.Err() is nil: d.Policy.DialFailed (which changes
\* no count), then the loop asks the policy again
DialFailedRetry(k) ==
    /\ ~crashed
    /\ pc[k] = "dialing"
    /\ pc' = [pc EXCEPT ![k] = "choose"]
    /\ up' = [up EXCEPT ![k] = NoUpstream]
    /\ UNCHANGED <<pending, cid, cands, path, log, crashed>>
    /\ UNCHANGED <<resByClient, workerVars, connectionCount, beliefStateByUpstream>>

\* a variant that does not look at dialCtx.Err() and retries
DialTimeout_retries(k) ==
    /\ ~crashed
    /\ pc[k] = "dialing"
    /\ pc' = [pc EXCEPT ![k] = "choose"]
    /\ up' = [up EXCEPT ![k] = NoUpstream]
    /\ UNCHANGED <<pending, cid, cands, path, log, crashed>>
    /\ UNCHANGED <<resByClient, workerVars, connectionCount, beliefStateByUpstream>>

\* the dial failed and the dial deadline has passed: return dialCtx.Err()
DialTimeout(k) ==
    /\ ~crashed
    /\ pc[k] = "dialing"
    /\ pc' = [pc EXCEPT ![k] = "release"]
    /\ path' = [path EXCEPT ![k] = "dial_timeout"]
    /\ up' = [up EXCEPT ![k] = NoUpstream]
    /\ cands' = [cands EXCEPT ![k] = {}]
    /\ UNCHANGED <<pending, cid, log, crashed>>
    /\ UNCHANGED <<resByClient, workerVars, connectionCount, beliefStateByUpstream>>

\* d.Policy.DialSucceeded(upstream); DialBestUpstream returns the wrapped
\* connection and ForwardingHandler.Handle defers its Close
DialSucceededStep(k) ==
    /\ ~crashed
    /\ pc[k] = "connected"
    /\ connectionCount' = DialSucceeded(connectionCount, up[k])
    /\ pc' = [pc EXCEPT ![k] = "forwarding"]
    /\ UNCHANGED <<pending, cid, cands, up, path, log, crashed>>
    /\ UNCHANGED <<resByClient, workerVars, beliefStateByUpstream>>

\* h.Forwarder.Forward returns (its error, if any, is only logged) or panics
Forward(k) ==
    /\ ~crashed
    /\ pc[k] = "forwarding"
    /\ \E outcome \in {"forwarded", "panic"} :
         /\ path' = [path EXCEPT ![k] = outcome]
         /\ log' = [log EXCEPT ![k].forwards = @ + 1,
                               ![k].panicValue = IF outcome = "panic"
                                                 THEN ForwardPanic ELSE @]
    /\ pc' = [pc EXCEPT ![k] = "close_upstream"]
    /\ UNCHANGED <<pending, cid, cands, up, crashed>>
    /\ UNCHANGED <<resByClient, workerVars, connectionCount, beliefStateByUpstream>>

\* ForwardingHandler.Handle's deferred upstreamConn.Close():
\* CloseNotifyingDuplexConn.Close closes the connection and runs OnClose,
\* which is d.Policy.ConnectionClosed(upstream)
CloseUpstream(k) ==
    /\ ~crashed
    /\ pc[k] = "close_upstream"
    /\ IF DeferredCloseUpstreamRuns(Panicking(k))
       THEN /\ connectionCount' = ConnectionClosed(connectionCount, up[k])
            /\ log' = [log EXCEPT ![k].upCloses = @ + 1]
       ELSE UNCHANGED <<connectionCount, log>>
    /\ pc' = [pc EXCEPT ![k] = "release"]
    /\ up' = [up EXCEPT ![k] = NoUpstream]
    /\ cands' = [cands EXCEPT ![k] = {}]
    /\ UNCHANGED <<pending, cid, path, crashed>>
    /\ UNCHANGED <<resByClient, workerVars, beliefStateByUpstream>>

\* RateLimitingHandler.Handle's deferred h.Reserver.ReleaseReservation
Release(k) ==
    /\ ~crashed
    /\ pc[k] = "release"
    /\ IF DeferredReleaseRuns(Panicking(k))
       THEN LET r == ReleaseReservation(resByClient, cid[k]) IN
            /\ resByClient' = r.m
            /\ log' = [log EXCEPT ![k].releases = @ + 1, ![k].releasedFor = cid[k],
                                  ![k].panicValue = IF r.err = Panicked
                                                    THEN Panicked ELSE @]
            /\ path' = IF r.err = Panicked THEN [path EXCEPT ![k] = "panic"] ELSE path
       ELSE UNCHANGED <<resByClient, log, path>>
    /\ pc' = [pc EXCEPT ![k] = "close_client"]
    /\ cid' = [cid EXCEPT ![k] = NoClient]
    /\ UNCHANGED <<pending, cands, up, crashed>>
    /\ UNCHANGED <<workerVars, connectionCount, beliefStateByUpstream>>

\* ConnCloserHandler.Handle's deferred conn.Close(); the goroutine ends, and
\* a panic nothing recovered ends the process
CloseClient(k) ==
    /\ ~crashed
    /\ pc[k] = "close_client"
    /\ IF DeferredCloseClientRuns(Panicking(k))
       THEN log' = [log EXCEPT ![k].clientCloses = @ + 1]
       ELSE log' = log
    /\ pc' = [pc EXCEPT ![k] = "done"]
    /\ crashed' = Panicking(k)
    /\ UNCHANGED <<pending, cid, cands, up, path>>
    /\ UNCHANGED <<resByClient, workerVars, connectionCount, beliefStateByUpstream>>

ErrorLevel == "ERROR"

RecovererUnexpectedPanicMessage == "RecovererHandler: Unexpected panic!"

\* string(debug.Stack()): the stack of the goroutine, which holds at least
\* the frame of the deferred function that asks for it
Stack(k) == <<"RecovererHandler.Handle.func1", k>>

\* a variant that takes every recover() result for "not panicking"
LogsPanic_never(panicValue) == FALSE

\* RecovererHandler.Handle's deferred function: panicValue == nil returns
LogsPanic(panicValue) == panicValue # NoResult

\* RecovererHandler.Handle's deferred function, where RecovererHandler is the
\* handler inside ConnCloserHandler (as serve wires it): recover() ends the
\* panic, if there is one, and its value is logged
Recover(k) ==
    /\ ~crashed
    /\ pc[k] = "close_client"
    /\ log[k].recovers = 0
    /\ LET panicValue == IF Panicking(k) THEN log[k].panicValue ELSE NoResult IN
       log' = [log EXCEPT
                 ![k].recovers = 1,
                 ![k].records =
                    IF LogsPanic(panicValue)
                    THEN Append(@, [Level |-> ErrorLevel,
                                    Msg |-> RecovererUnexpectedPanicMessage,
                                    Details |-> panicValue,
                                    StackTrace |-> Stack(k)])
                    ELSE @]
    /\ path' = [path EXCEPT ![k] = IF Panicking(k) THEN "recovered" ELSE @]
    /\ UNCHANGED <<pending, pc, cid, cands, up, crashed>>
    /\ UNCHANGED <<resByClient, workerVars, connectionCount, beliefStateByUpstream>>

\* ConnCloserHandler.Handle's deferred conn.Close() when its inner handler is
\* a RecovererHandler
CloseClientOuter(k) ==
    /\ log[k].recovers = 1
    /\ CloseClient(k)

(***************************************************************************)
(* lib/dialer: RetryDialer called directly, as its tests call it, with a   *)
(* policy that records the calls it receives (events).  The caller of      *)
(* DialBestUpstream k is at "forwarding" while it holds the connection the *)
(* call returned, at "release" when the call returned an error, and at     *)
(* "closed" once it has called Close.                                      *)
(***************************************************************************)
DialCallers == {1, 2}

PolicyCall(name, u) == <<name, u>>

CountCalls(evs, name) == Cardinality({i \in DOMAIN evs : evs[i][1] = name})

\* a variant that reports a failure to the policy whatever the deadline
PolicyCallsOnDialError_always(expired, u) == <<PolicyCall("DialFailed", u)>>

\* DialBestUpstream, lines 699-709: the policy calls after a failed dial
PolicyCallsOnDialError(expired, u) ==
    IF expired THEN <<>> ELSE <<PolicyCall("DialFailed", u)>>

\* a variant of Close that forgets the notification
CloseNotifies_never(closedBefore) == FALSE

\* CloseNotifyingDuplexConn.Close: defer c.OnClose() runs on every call
CloseNotifies(closedBefore) == TRUE

policyUnitVars == <<polCands, polChoice, polSeen>>

authzUnitVars == <<azConfig, azClient, azResult>>

D_Begin(k) ==
    /\ DialBegin(k)
    /\ UNCHANGED <<events, policyUnitVars, authzUnitVars, componentVars>>

D_Choose(k) ==
    /\ Choose(k)
    /\ events' = [events EXCEPT ![k] = Append(@, PolicyCall("ChooseBestUpstream", up'[k]))]
    /\ UNCHANGED <<policyUnitVars, authzUnitVars, componentVars>>

D_DialOk(k) ==
    /\ DialOk(k)
    /\ UNCHANGED <<events, policyUnitVars, authzUnitVars, componentVars>>

D_DialFailed(k) ==
    /\ CountCalls(events[k], "DialFailed") < MaxDialAttempts
    /\ DialFailedRetry(k)
    /\ events' = [events EXCEPT ![k] = @ \o PolicyCallsOnDialError(FALSE, up[k])]
    /\ UNCHANGED <<policyUnitVars, authzUnitVars, componentVars>>

D_DialTimeout(k) ==
    /\ DialTimeout(k)
    /\ events' = [events EXCEPT ![k] = @ \o PolicyCallsOnDialError(TRUE, up[k])]
    /\ UNCHANGED <<policyUnitVars, authzUnitVars, componentVars>>

D_DialSucceeded(k) ==
    /\ DialSucceededStep(k)
    /\ events' = [events EXCEPT ![k] = Append(@, PolicyCall("DialSucceeded", up[k]))]
    /\ UNCHANGED <<policyUnitVars, authzUnitVars, componentVars>>

\* conn.Close() on the connection DialBestUpstream returned
CallerClose(k) ==
    /\ ~crashed
    /\ pc' = [pc EXCEPT ![k] = "closed"]
    /\ log' = [log EXCEPT ![k].upCloses = @ + 1]
    /\ IF CloseNotifies(log[k].upCloses > 0)
       THEN /\ connectionCount' = ConnectionClosed(connectionCount, up[k])
            /\ events' = [events EXCEPT ![k] = Append(@, PolicyCall("ConnectionClosed", up[k]))]
       ELSE UNCHANGED <<connectionCount, events>>
    /\ UNCHANGED <<pending, cid, cands, up, path, crashed>>
    /\ UNCHANGED <<resByClient, workerVars, beliefStateByUpstream>>
    /\ UNCHANGED <<policyUnitVars, authzUnitVars, componentVars>>

\* the first Close
D_Close(k) ==
    /\ pc[k] = "forwarding"
    /\ CallerClose(k)

\* one more Close on a connection already closed
D_CloseAgain(k) ==
    /\ pc[k] = "closed"
    /\ log[k].upCloses < MaxCloses
    /\ CallerClose(k)

(***************************************************************************)
(* lib/healthcheck: BeliefHealthTracker with any Config.                   *)
(***************************************************************************)
\* no report was sent yet; HealthyUpstreams was not called since the last one
NoReport == [upstream |-> NoUpstream, result |-> NoResult]

NoQuery == [made |-> FALSE, candidates |-> {}, result |-> {}]

\* the largest value of the uint8 fields of Config
MaxUint8 == 255

\* thresholds of the configurations explored: the small ones, the ones of
\* the probe transition scenario, and the largest a uint8 holds
Thresholds == {1, 2, 3, MaxUint8}

Configs ==
    [Prior : {HEALTHY, UNHEALTHY},
     MinFailuresToInferUnhealthy : Thresholds,
     MinSuccessesToInferHealthy : Thresholds]

\* NewBeliefHealthTracker(upstreams, cfg): every belief state keeps its cfg
NewBeliefHealthTrackerWith(upstreams, cfg) ==
    [u \in upstreams |->
        [cfg |-> cfg, state |-> cfg.Prior, failures |-> 0, successes |-> 0]]

\* a variant that needs one report more than the threshold
ThresholdReached_late(counter, threshold) == counter > threshold

\* updateBeliefLocked: s.successes >= s.cfg.MinSuccessesToInferHealthy
ThresholdReached(counter, threshold) == counter >= threshold

\* upstreamBeliefState.UpdateBelief / updateBeliefLocked, with the cfg of the
\* belief state and the uint8 arithmetic of its counters
UpdateBelief(s, result) ==
    IF result = CheckSuccess
    THEN LET succ == min(Uint8(s.successes + 1), s.cfg.MinSuccessesToInferHealthy) IN
         [cfg |-> s.cfg,
          state |-> IF ThresholdReached(succ, s.cfg.MinSuccessesToInferHealthy)
                    THEN HEALTHY ELSE s.state,
          failures |-> 0,
          successes |-> succ]
    ELSE LET fail == min(Uint8(s.failures + 1), s.cfg.MinFailuresToInferUnhealthy) IN
         [cfg |-> s.cfg,
          state |-> IF ThresholdReached(fail, s.cfg.MinFailuresToInferUnhealthy)
                    THEN UNHEALTHY ELSE s.state,
          failures |-> fail,
          successes |-> 0]

\* a variant of the tracker that registers what it is told about
Exists_orReported(belief, u) == TRUE

\* _, exists := hc.beliefStateByUpstream[u]
Exists(belief, u) == u \in DOMAIN belief

\* the consecutive identical reports that end the reports sent for a
\* registered upstream, counted up to RunCap
RunCap(cfg) ==
    (IF cfg.MinFailuresToInferUnhealthy > cfg.MinSuccessesToInferHealthy
     THEN cfg.MinFailuresToInferUnhealthy
     ELSE cfg.MinSuccessesToInferHealthy) + 2

NoRun == [result |-> NoResult, n |-> 0]

RunOf(u) == IF u \in DOMAIN reports.run THEN reports.run[u] ELSE NoRun

TrackerRest == <<resByClient, workerVars, pipelineVars, unitVarsButReports>>

\* BeliefHealthTracker.ReportUpstreamHealth(&HealthReport{u, result}) on a
\* tracker made with cfg
T_ReportUpstreamHealth(u, result, cfg) ==
    /\ beliefStateByUpstream' =
          IF ~Exists(beliefStateByUpstream, u) THEN beliefStateByUpstream
          ELSE IF u \in DOMAIN beliefStateByUpstream
          THEN [beliefStateByUpstream EXCEPT
                  ![u] = UpdateBelief(beliefStateByUpstream[u], result)]
          ELSE Put(beliefStateByUpstream, u,
                   UpdateBelief(NewBeliefHealthTrackerWith({u}, cfg)[u], result))
    /\ reports' =
          [reports EXCEPT
             !.last = [upstream |-> u, result |-> result],
             !.query = NoQuery,
             !.run = IF u \notin reports.registered THEN reports.run
                     ELSE Put(reports.run, u,
                              IF RunOf(u).result = result
                              THEN [result |-> result,
                                    n |-> min(RunOf(u).n + 1, RunCap(cfg))]
                              ELSE [result |-> result, n |-> 1])]
    /\ UNCHANGED TrackerRest

\* BeliefHealthTracker.HealthyUpstreams(candidates); the harness records the
\* argument and the result
T_HealthyUpstreams(candidates) ==
    /\ reports' =
          [reports EXCEPT
             !.query = [made |-> TRUE, candidates |-> candidates,
                        result |-> HealthyUpstreams(beliefStateByUpstream, candidates)]]
    /\ UNCHANGED beliefStateByUpstream
    /\ UNCHANGED TrackerRest

(***************************************************************************)
(* lib/healthcheck: ProbePool and its probe workers.                       *)
(***************************************************************************)
\* NewProbePool(cfg) with cfg.Upstreams = Upstreams. done names the context
\* ap.done cancels (0: nil); contexts are numbered by the Start call that
\* made them. workers holds every goroutine Start launched.
NewProbePool ==
    [started |-> FALSE, stopped |-> FALSE, done |-> 0, wg |-> 0,
     mu |-> "free", workers |-> <<>>, cancelled |-> {},
     starts |-> 0, stops |-> 0, reports |-> 0,
     stopReturned |-> FALSE, lateReports |-> 0]

\* a variant of Start that launches workers on every call
AlreadyStarted_never(started) == FALSE

\* Start: if ap.started { return }
AlreadyStarted(started) == started

\* the goroutines of the pool that have not returned
Live(p) == {i \in DOMAIN p.workers : p.workers[i].pc # "exited"}

PoolRest == <<resByClient, workerVars, pipelineVars, beliefStateByUpstream,
              events, policyUnitVars, authzUnitVars, reports, fwd, stream>>

PoolRestButBelief ==
    <<resByClient, workerVars, pipelineVars, events, policyUnitVars,
      authzUnitVars, reports, fwd, stream>>

ProbeDialError == "dial error"

NoHealthReport == [Upstream |-> NoUpstream, CheckResult |-> NoResult, Symptom |-> ErrNil]

\* newWorker(workerConfig{Upstream: upstream, ...}) and go probeForever(ctx);
\* dials, closes and sent count its DialUpstream calls, the Close calls on
\* the connections they returned and its ReportUpstreamHealth calls, and
\* last is the report of the last one
newProbeWorker(upstream, ctx) ==
    [upstream |-> upstream, ctx |-> ctx, pc |-> "ticking",
     dials |-> 0, oks |-> 0, closes |-> 0, sent |-> 0, last |-> NoHealthReport]

\* a variant that reports every probe as a success
CheckResultOf_alwaysSuccess(err) == CheckSuccess

\* probeForever: the CheckResult of the report
CheckResultOf(err) == IF err # ErrNil THEN CheckFail ELSE CheckSuccess

\* the upstreams of the configuration, in the order the range loop meets them
RECURSIVE Launch(_, _, _)
Launch(workers, upstreams, ctx) ==
    IF upstreams = {} THEN workers
    ELSE LET u == CHOOSE x \in upstreams : TRUE IN
         Launch(Append(workers, newProbeWorker(u, ctx)), upstreams \ {u}, ctx)

\* ProbePool.Start(ctx): it does not block, so it is one step under the mutex.
\* ap.done is replaced before ap.started is looked at.
PP_Start ==
    /\ pool.mu = "free"
    /\ pool.starts < MaxStarts
    /\ LET ctx == pool.starts + 1
           p == [pool EXCEPT !.starts = ctx, !.done = ctx]
       IN  pool' =
              IF AlreadyStarted(pool.started) THEN p
              ELSE [p EXCEPT !.started = TRUE,
                             !.stopped = FALSE,
                             !.wg = @ + Cardinality(Upstreams),
                             !.workers = Launch(@, Upstreams, ctx)]
    /\ UNCHANGED PoolRest

\* ProbePool.Stop up to ap.wg.Wait(): a Stop that has nothing to stop returns
\* at once, another one cancels ap.done and waits with the mutex held
PP_Stop ==
    /\ pool.mu = "free"
    /\ pool.stops < MaxStops
    /\ pool' =
          IF ~pool.started \/ pool.stopped
          THEN [pool EXCEPT !.stops = @ + 1]
          ELSE [pool EXCEPT !.stops = @ + 1,
                            !.started = FALSE,
                            !.stopped = TRUE,
                            !.cancelled = @ \cup {pool.done},
                            !.mu = "Stop"]
    /\ UNCHANGED PoolRest

\* ap.wg.Wait() returns, then Stop
PP_StopReturn ==
    /\ pool.mu = "Stop"
    /\ pool.wg = 0
    /\ pool' = [pool EXCEPT !.mu = "free", !.stopReturned = TRUE]
    /\ UNCHANGED PoolRest

\* probeForever: case <-ticker.C, chosen also when ctx is done as well, and
\* the call of Dialer.DialUpstream(ctx, w.cfg.Upstream)
PW_Tick(i) ==
    /\ i \in DOMAIN pool.workers
    /\ pool.workers[i].pc = "ticking"
    /\ pool.reports < MaxProbes
    /\ pool' = [pool EXCEPT !.workers[i].pc = "dialing",
                            !.workers[i].dials = @ + 1]
    /\ UNCHANGED PoolRest

\* probeForever: DialUpstream returned err (at once if ctx is done); the
\* report is made, the connection of a successful dial is closed, and the
\* report is handed to the HealthReportSink, the BeliefHealthTracker
PW_Report(i, err) ==
    /\ i \in DOMAIN pool.workers
    /\ pool.workers[i].pc = "dialing"
    /\ LET report == [Upstream |-> pool.workers[i].upstream,
                      CheckResult |-> CheckResultOf(err),
                      Symptom |-> err]
       IN  /\ pool' = [pool EXCEPT
                         !.workers[i].pc = "ticking",
                         !.workers[i].oks = IF err = ErrNil THEN @ + 1 ELSE @,
                         !.workers[i].closes = IF err = ErrNil THEN @ + 1 ELSE @,
                         !.workers[i].sent = @ + 1,
                         !.workers[i].last = report,
                         !.reports = @ + 1,
                         !.lateReports = IF pool.stopReturned THEN 1 ELSE @]
           /\ beliefStateByUpstream' =
                 IF report.Upstream \notin DOMAIN beliefStateByUpstream
                 THEN beliefStateByUpstream
                 ELSE [beliefStateByUpstream EXCEPT
                         ![report.Upstream] = updateBeliefLocked(@, report.CheckResult)]
    /\ UNCHANGED PoolRestButBelief

\* probeForever: case <-ctx.Done(): return, and the deferred WaitGroup.Done()
PW_Exit(i) ==
    /\ i \in DOMAIN pool.workers
    /\ pool.workers[i].pc = "ticking"
    /\ pool.workers[i].ctx \in pool.cancelled
    /\ pool' = [pool EXCEPT !.workers[i].pc = "exited", !.wg = @ - 1]
    /\ UNCHANGED PoolRest

(***************************************************************************)
(* lib/forwarder: ForwardingSupervisor.Forward and its two copy workers.   *)
(***************************************************************************)
FwdWorkers == {"cu", "uc"}

FwdConns == {"client", "upstream"}

\* worker.Src and worker.Dst, as Forward passes the connections to newWorker
SrcOf(w) == IF w = "cu" THEN "client" ELSE "upstream"

DstOf(w) == IF w = "cu" THEN "upstream" ELSE "client"

\* a variant that copies from worker.Src to worker.Dst, as the labels say
CopySrc_asLabelled(w) == SrcOf(w)

\* worker.start: the goroutine's parameters are (dst, src, in, out) and it is
\* started with the arguments (w.Src, w.Dst, w.In, w.Out), so io.Copy(dst, src)
\* reads from w.Dst
CopySrc(w) == DstOf(w)

\* and writes to the connection it does not read
CopyDst(w) == IF CopySrc(w) = "client" THEN "upstream" ELSE "client"

IdleTimeoutErr == "idle timeout"

ErrDeadlineExceeded == "deadline exceeded"

CopyError == "copy error"

NoTaskResult == [written |-> 0, err |-> NoResult]

\* newWorker, and the worker's goroutine: g is where it is (idle: at
\* "for range in"), res the result it is about to send, InClosed: stop() ran
newWorker ==
    [WorkRemaining |-> TRUE, TaskDone |-> FALSE, In |-> 0, Out |-> <<>>,
     InClosed |-> FALSE, g |-> "idle", res |-> NoTaskResult]

\* the state of a Forward call when it has made its workers. calls holds the
\* methods Forward and its workers called on each connection, eof the
\* connections whose read side reported EOF, shut those whose write side a
\* CloseWrite shut down
NewForward ==
    [pc |-> "period", failures |-> <<>>, result |-> NoResult,
     w |-> [x \in FwdWorkers |-> newWorker],
     bytesWrittenThisPeriod |-> 0, ctxDone |-> FALSE, ctxDoneInPeriod |-> FALSE,
     calls |-> [c \in FwdConns |-> {}],
     closeWrites |-> [c \in FwdConns |-> 0],
     eof |-> [c \in FwdConns |-> FALSE],
     shut |-> [c \in FwdConns |-> FALSE],
     periods |-> 0, deadlinesSet |-> 0, moved |-> FALSE,
     last |-> [ended |-> FALSE, moved |-> FALSE, active |-> FALSE,
               otherFailure |-> FALSE]]

hasFailed(f) == Len(f.failures) > 0

\* a variant that releases a task to a worker whose work is done
releaseTask_always(w) == [w EXCEPT !.TaskDone = FALSE, !.In = 1]

\* worker.releaseTask
releaseTask(w) ==
    IF w.WorkRemaining THEN [w EXCEPT !.TaskDone = FALSE, !.In = 1]
    ELSE [w EXCEPT !.TaskDone = TRUE]

\* a variant of stop that leaves the task channel open
stop_never(w) == w

\* worker.stop: close(w.In)
stop(w) == [w EXCEPT !.InClosed = TRUE]

\* a variant that takes the end of a period for the end of the stream
IsEOF_orDeadline(err) == err \in {ErrNil, ErrDeadlineExceeded}

\* checkTaskResult: result.err == nil
IsEOF(err) == err = ErrNil

\* variants of the idle test
NoDataCopied_never(bytes) == FALSE

NoDataCopied_always(bytes) == TRUE

\* Forward: bytesWrittenThisPeriod == 0
NoDataCopied(bytes) == bytes = 0

\* setConnDeadlines: the failures it records
setConnDeadlines(cdErr, udErr) ==
    (IF cdErr THEN <<"unable to set client conn deadline">> ELSE <<>>)
    \o (IF udErr THEN <<"unable to set upstream conn deadline">> ELSE <<>>)

FwdRest == <<resByClient, workerVars, pipelineVars, beliefStateByUpstream,
             events, policyUnitVars, authzUnitVars, reports, pool>>

\* Forward, the head of the outer loop: the loop test, setConnDeadlines, and
\* the release of one task to each worker
F_Period(cdErr, udErr) ==
    /\ fwd.pc = "period"
    /\ LET work == fwd.w["cu"].WorkRemaining \/ fwd.w["uc"].WorkRemaining
           failed == setConnDeadlines(cdErr, udErr)
       IN  IF ~work
           THEN fwd' = [fwd EXCEPT !.pc = "terminal"]
           ELSE /\ fwd.periods < MaxPeriods
                /\ IF failed # <<>>
                   THEN fwd' = [fwd EXCEPT
                                  !.pc = "terminal",
                                  !.failures = @ \o failed,
                                  !.deadlinesSet = @ + 1,
                                  !.calls = [c \in DOMAIN @ |-> @[c] \cup {"SetDeadline"}]]
                   ELSE fwd' = [fwd EXCEPT
                                  !.pc = "select",
                                  !.deadlinesSet = @ + 1,
                                  !.calls = [c \in DOMAIN @ |-> @[c] \cup {"SetDeadline"}],
                                  !.bytesWrittenThisPeriod = 0,
                                  !.moved = FALSE,
                                  !.periods = @ + 1,
                                  !.w = [x \in FwdWorkers |-> releaseTask(fwd.w[x])]]
    /\ UNCHANGED <<FwdRest, stream>>

\* the goroutine of worker x, "for range in": it takes a task; a task that
\* was sent before stop() closed the channel is still received
W_Take(x) ==
    /\ fwd.w[x].g = "idle"
    /\ fwd.w[x].In = 1
    /\ fwd' = [fwd EXCEPT !.w[x].In = 0, !.w[x].g = "copying"]
    /\ UNCHANGED <<FwdRest, stream>>

\* the goroutine of worker x, io.Copy(dst, src): until it returns it has read
\* nr bytes from src and written the first written of them to dst;
\*   err = nil:  src reported EOF, and all that was read was written;
\*   otherwise:  a Read failed (all that was read before was written) or a
\*               Write failed (the rest of what was read is dropped with
\*               the copy buffer);
\* a connection that reported EOF reports it again, and a Write on a
\* connection after CloseWrite fails.
io_Copy(x, nr, written, err) ==
    LET src == CopySrc(x)
        dst == CopyDst(x)
    IN  /\ fwd.w[x].g = "copying"
        /\ written <= nr
        /\ written < nr => err # ErrNil
        /\ fwd.eof[src] => (nr = 0 /\ err = ErrNil)
        /\ (fwd.shut[dst] /\ nr > 0) => (written = 0 /\ err = CopyError)
        /\ fwd' = [fwd EXCEPT
                     !.w[x].g = "sending",
                     !.w[x].res = [written |-> written, err |-> err],
                     !.eof[src] = @ \/ err = ErrNil,
                     !.moved = @ \/ written > 0,
                     !.calls[dst] = @ \cup (IF nr > 0 THEN {"Write"} ELSE {})]

W_Copy(x, nr, written, err) ==
    /\ io_Copy(x, nr, written, err)
    /\ UNCHANGED <<FwdRest, stream>>

\* the bytes a peer sends on a connection are numbered 1, 2, ...;
\* stream.read counts those io.Copy read from the connection, and
\* stream.delivered lists those written to the other connection
NewStream ==
    [read |-> [c \in FwdConns |-> 0], delivered |-> [c \in FwdConns |-> <<>>]]

\* the bytes numbered from + 1 .. from + n
Bytes(from, n) == [i \in 1..n |-> from + i]

\* W_Copy, with the bytes it moved
W_CopyBytes(x, nr, written, err) ==
    /\ io_Copy(x, nr, written, err)
    /\ stream.read[CopySrc(x)] + nr <= MaxBytes
    /\ stream' = [stream EXCEPT
                    !.read[CopySrc(x)] = @ + nr,
                    !.delivered[CopyDst(x)] =
                        @ \o Bytes(stream.read[CopySrc(x)], written)]
    /\ UNCHANGED FwdRest

\* the goroutine of worker x, out <- taskResult{...}: Out holds one result
W_Send(x) ==
    /\ fwd.w[x].g = "sending"
    /\ fwd.w[x].Out = <<>>
    /\ fwd' = [fwd EXCEPT !.w[x].Out = <<fwd.w[x].res>>,
                          !.w[x].res = NoTaskResult,
                          !.w[x].g = "idle"]
    /\ UNCHANGED <<FwdRest, stream>>

\* the goroutine of worker x: "for range in" ends when In is closed and empty
W_Exit(x) ==
    /\ fwd.w[x].g = "idle"
    /\ fwd.w[x].In = 0
    /\ fwd.w[x].InClosed
    /\ fwd' = [fwd EXCEPT !.w[x].g = "exited"]
    /\ UNCHANGED <<FwdRest, stream>>

InnerLoopRuns(f) ==
    /\ f.pc = "select"
    /\ ~hasFailed(f)
    /\ ~f.w["cu"].TaskDone \/ ~f.w["uc"].TaskDone

\* the owner of ctx cancels it; ctxDoneInPeriod: Forward was in a period's
\* inner loop when it did
F_Cancel ==
    /\ fwd.pc # "returned"
    /\ ~fwd.ctxDone
    /\ fwd' = [fwd EXCEPT !.ctxDone = TRUE,
                          !.ctxDoneInPeriod = InnerLoopRuns(fwd)]
    /\ UNCHANGED <<FwdRest, stream>>

\* a variant of the inner loop's select without the case <-ctx.Done()
CtxDoneReady_never(f) == FALSE

\* the inner loop's select: the case <-ctx.Done() is ready
CtxDoneReady(f) == f.ctxDone

\* the inner loop, case <-ctx.Done()
F_SelectDone ==
    /\ InnerLoopRuns(fwd)
    /\ CtxDoneReady(fwd)
    /\ fwd' = [fwd EXCEPT !.failures = Append(@, "terminated by context")]
    /\ UNCHANGED <<FwdRest, stream>>

\* the inner loop, case result := <-worker.Out, with worker.checkTaskResult;
\* cwErr: Dst.CloseWrite() fails
F_SelectResult(x, cwErr) ==
    /\ InnerLoopRuns(fwd)
    /\ fwd.w[x].Out # <<>>
    /\ LET result == Head(fwd.w[x].Out)
           eof == IsEOF(result.err)
           err == IF eof
                  THEN IF cwErr THEN <<"unable to close-write " \o DstOf(x) \o " conn">>
                       ELSE <<>>
                  ELSE IF result.err # ErrDeadlineExceeded THEN <<CopyError>>
                  ELSE <<>>
       IN  fwd' = [fwd EXCEPT
                     !.bytesWrittenThisPeriod = @ + result.written,
                     !.w[x].Out = <<>>,
                     !.w[x].TaskDone = TRUE,
                     !.w[x].WorkRemaining = IF eof THEN FALSE ELSE @,
                     !.closeWrites[DstOf(x)] = IF eof THEN @ + 1 ELSE @,
                     !.shut[DstOf(x)] = @ \/ (eof /\ ~cwErr),
                     !.calls[DstOf(x)] = IF eof THEN @ \cup {"CloseWrite"} ELSE @,
                     !.failures = @ \o err]
    /\ UNCHANGED <<FwdRest, stream>>

\* Forward after the inner loop: the two tests that end the outer loop
F_PeriodEnd ==
    /\ fwd.pc = "select"
    /\ ~InnerLoopRuns(fwd)
    /\ LET done == ~fwd.w["cu"].WorkRemaining /\ ~fwd.w["uc"].WorkRemaining
           last == [ended |-> TRUE,
                    moved |-> fwd.moved,
                    active |-> fwd.w["cu"].WorkRemaining /\ fwd.w["uc"].WorkRemaining,
                    otherFailure |-> hasFailed(fwd)]
       IN  fwd' =
              IF hasFailed(fwd) \/ done
              THEN [fwd EXCEPT !.pc = "terminal", !.last = last]
              ELSE IF NoDataCopied(fwd.bytesWrittenThisPeriod)
              THEN [fwd EXCEPT !.pc = "terminal", !.last = last,
                               !.failures = Append(@, IdleTimeoutErr)]
              ELSE [fwd EXCEPT !.pc = "period", !.last = last]
    /\ UNCHANGED <<FwdRest, stream>>

\* Forward's terminal state: immediate deadlines after a failure, the return,
\* and the deferred stop() of both workers
F_Return(cdErr, udErr) ==
    /\ fwd.pc = "terminal"
    /\ ~hasFailed(fwd) => (~cdErr /\ ~udErr)
    /\ LET stopped == [x \in FwdWorkers |-> stop(fwd.w[x])]
       IN  fwd' =
              IF hasFailed(fwd)
              THEN [fwd EXCEPT
                      !.pc = "returned",
                      !.result = "AggregateError",
                      !.failures = @ \o setConnDeadlines(cdErr, udErr),
                      !.deadlinesSet = @ + 1,
                      !.calls = [c \in DOMAIN @ |-> @[c] \cup {"SetDeadline"}],
                      !.w = stopped]
              ELSE [fwd EXCEPT !.pc = "returned", !.result = ErrNil, !.w = stopped]
    /\ UNCHANGED <<FwdRest, stream>>

(***************************************************************************)
(* Initial states and specifications.                                      *)
(***************************************************************************)
InitWorkers ==
    /\ mu = NoHolder
    /\ wpc = [w \in Workers |-> "idle"]
    /\ wn = [w \in Workers |-> 0]
    /\ wres = [w \in Workers |-> NoResult]
    /\ wcall = [w \in Workers |-> "none"]

InitConns ==
    /\ pc = [k \in Conns |-> "new"]
    /\ cid = [k \in Conns |-> NoClient]
    /\ cands = [k \in Conns |-> {}]
    /\ up = [k \in Conns |-> NoUpstream]
    /\ path = [k \in Conns |-> "none"]
    /\ log = [k \in Conns |-> NewLog]
    /\ crashed = FALSE

InitShared ==
    /\ resByClient = EmptyMap
    /\ connectionCount = EmptyMap
    /\ beliefStateByUpstream = NewBeliefHealthTracker(Upstreams)

NoChoice == [upstream |-> NoUpstream, err |-> NoResult]

\* the authorizer configuration makeAuthorizerFromConfig builds
StaticConfig ==
    [GroupsByClientID |-> GroupsByClientID,
     UpstreamGroupsByGroup |-> UpstreamGroupsByGroup,
     UpstreamsByUpstreamGroup |-> UpstreamsByUpstreamGroup]

\* no report was sent, no probe pool was made, Forward was not called
NoReports == [registered |-> Upstreams, last |-> NoReport, run |-> EmptyMap,
              query |-> NoQuery]

NoPool == NoResult

NoForward == NoResult

NoStream == NoResult

\* no component is exercised alone
InitUnits ==
    /\ events = [k \in Conns |-> <<>>]
    /\ polCands = {}
    /\ polChoice = NoChoice
    /\ polSeen = EmptyMap
    /\ azConfig = StaticConfig
    /\ azClient = NoClient
    /\ azResult = {}
    /\ reports = NoReports
    /\ pool = NoPool
    /\ fwd = NoForward
    /\ stream = NoStream

\* the limiter's concurrent test: no connection is ever accepted
InitReserver ==
    /\ InitShared
    /\ InitWorkers
    /\ InitConns
    /\ InitUnits
    /\ pending = {}

WorkerStep(w) ==
    \/ TR_Lock(w)
    \/ TR_Read(w)
    \/ TR_Write(w)
    \/ TR_Unlock(w)
    \/ RL_Lock(w)
    \/ RL_Read(w)
    \/ RL_Write(w)
    \/ RL_Unlock(w)
    \/ W_Finish(w)

NextReserver ==
    /\ \E w \in Workers : WorkerStep(w)
    /\ UNCHANGED <<pipelineVars, beliefStateByUpstream, unitVars>>

SpecReserver == InitReserver /\ [][NextReserver]_vars

NextMisuse ==
    /\ \E w \in Workers : WorkerStep(w) \/ RL_LockFictitious(w)
    /\ UNCHANGED <<pipelineVars, beliefStateByUpstream, unitVars>>

SpecMisuse == InitReserver /\ [][NextMisuse]_vars

ConnStep(k) ==
    \/ Accept(k)
    \/ Authenticate(k)
    \/ RateLimit(k)
    \/ Authorize(k)
    \/ DialBegin(k)
    \/ Choose(k)
    \/ DialOk(k)
    \/ DialFailedRetry(k)
    \/ DialTimeout(k)
    \/ DialSucceededStep(k)
    \/ Forward(k)
    \/ CloseUpstream(k)
    \/ Release(k)
    \/ CloseClient(k)

\* the server: every connection of the run is still to be accepted
Init ==
    /\ InitShared
    /\ InitWorkers
    /\ InitConns
    /\ InitUnits
    /\ pending = Conns

Next ==
    /\ \E k \in Conns : ConnStep(k)
    /\ UNCHANGED unitVars

Spec == Init /\ [][Next]_vars

\* the server with one client connection, and probe workers reporting the
\* health of the upstreams to the tracker while it is handled
InitHealth ==
    /\ InitShared
    /\ InitWorkers
    /\ InitConns
    /\ InitUnits
    /\ pending = {1}

HealthStep ==
    \/ \E k \in Conns : ConnStep(k)
    \/ \E u \in Upstreams, result \in {CheckSuccess, CheckFail} :
           ReportUpstreamHealth(u, result)

NextHealth == HealthStep /\ UNCHANGED unitVars

SpecHealth == InitHealth /\ [][NextHealth]_vars

\* the server with the recovery layer, handling two connections
RecoverConns == {1, 2}

InitRecover ==
    /\ InitShared
    /\ InitWorkers
    /\ InitConns
    /\ InitUnits
    /\ pending = RecoverConns

RecoverStep(k) ==
    \/ Accept(k)
    \/ Authenticate(k)
    \/ RateLimit(k)
    \/ Authorize(k)
    \/ DialBegin(k)
    \/ Choose(k)
    \/ DialOk(k)
    \/ DialFailedRetry(k)
    \/ DialTimeout(k)
    \/ DialSucceededStep(k)
    \/ Forward(k)
    \/ CloseUpstream(k)
    \/ Release(k)
    \/ Recover(k)
    \/ CloseClientOuter(k)

NextRecover == (\E k \in Conns : RecoverStep(k)) /\ UNCHANGED unitVars

SpecRecover == InitRecover /\ [][NextRecover]_vars

\* the handler chain over a static authorizer that gives each client one group,
\* each group its own upstream group, and each upstream group any set of
\* upstreams
DialConfigs ==
    [GroupsByClientID : UNION {[D -> {<<g>> : g \in Groups}] : D \in SUBSET AuthnClients},
     UpstreamGroupsByGroup : {[g \in Groups |-> IF g = "g1" THEN <<"ug1">> ELSE <<"ug2">>]},
     UpstreamsByUpstreamGroup : [UpstreamGroups -> SUBSET Upstreams]]

InitAuthzDial ==
    /\ InitShared
    /\ InitWorkers
    /\ InitConns
    /\ events = [k \in Conns |-> <<>>]
    /\ polCands = {}
    /\ polChoice = NoChoice
    /\ polSeen = EmptyMap
    /\ azConfig \in DialConfigs
    /\ azClient = NoClient
    /\ azResult = {}
    /\ reports = NoReports
    /\ pool = NoPool
    /\ fwd = NoForward
    /\ stream = NoStream
    /\ pending = RecoverConns

AuthzDialStep(k) ==
    \/ Accept(k)
    \/ Authenticate(k)
    \/ RateLimit(k)
    \/ AuthorizeConfigured(k)
    \/ DialBegin(k)
    \/ Choose(k)
    \/ DialOk(k)
    \/ DialFailedRetry(k)
    \/ DialTimeout(k)
    \/ DialSucceededStep(k)
    \/ Forward(k)
    \/ CloseUpstream(k)
    \/ Release(k)
    \/ Recover(k)
    \/ CloseClientOuter(k)

NextAuthzDial == (\E k \in Conns : AuthzDialStep(k)) /\ UNCHANGED unitVars

SpecAuthzDial == InitAuthzDial /\ [][NextAuthzDial]_vars

\* Go slices of length 0 .. MaxListLen over S
ListsOf(S) == UNION {[1..n -> S] : n \in 0..MaxListLen}

\* maps defined on some of the keys K, valued in V
PartialMaps(K, V) == UNION {[D -> V] : D \in SUBSET K}

\* the authorizer alone, over every configuration within the bounds
InitAuthz ==
    /\ InitShared
    /\ InitWorkers
    /\ InitConns
    /\ pending = {}
    /\ events = [k \in Conns |-> <<>>]
    /\ polCands = {}
    /\ polChoice = NoChoice
    /\ polSeen = EmptyMap
    /\ azConfig \in
          [GroupsByClientID : PartialMaps(AuthorizedClients, ListsOf(Groups)),
           UpstreamGroupsByGroup : PartialMaps(Groups, ListsOf(UpstreamGroups)),
           UpstreamsByUpstreamGroup : PartialMaps(UpstreamGroups, SUBSET Upstreams)]
    /\ azClient = NoClient
    /\ azResult = {}
    /\ reports = NoReports
    /\ pool = NoPool
    /\ fwd = NoForward
    /\ stream = NoStream

NextAuthz == \E c \in AuthnClients : AuthzCall(c)

SpecAuthz == InitAuthz /\ [][NextAuthz]_vars

\* two concurrent DialBestUpstream calls on one RetryDialer, each with some
\* set of candidates
InitDialer ==
    /\ InitShared
    /\ InitWorkers
    /\ InitUnits
    /\ pending = {}
    /\ pc = [k \in Conns |-> IF k \in DialCallers THEN "dial_begin" ELSE "new"]
    /\ cid = [k \in Conns |-> NoClient]
    /\ cands \in {f \in [Conns -> SUBSET Upstreams] : \A k \in Conns \ DialCallers : f[k] = {}}
    /\ up = [k \in Conns |-> NoUpstream]
    /\ path = [k \in Conns |-> "none"]
    /\ log = [k \in Conns |-> NewLog]
    /\ crashed = FALSE

DialerStep(k) ==
    \/ D_Begin(k)
    \/ D_Choose(k)
    \/ D_DialOk(k)
    \/ D_DialFailed(k)
    \/ D_DialTimeout(k)
    \/ D_DialSucceeded(k)
    \/ D_Close(k)

\* every returned connection is closed at most once, as ForwardingHandler and
\* the dialer's tests close it
NextDialer == \E k \in DialCallers : DialerStep(k)

SpecDialer == InitDialer /\ [][NextDialer]_vars

\* callers that may call Close again
NextReclose == \E k \in DialCallers : DialerStep(k) \/ D_CloseAgain(k)

SpecReclose == InitDialer /\ [][NextReclose]_vars

\* the retry scenario: U_bad refuses every connection, U_good accepts
U_bad == "u1"

U_good == "u2"

InitRetry ==
    /\ InitDialer
    /\ \A k \in DialCallers : cands[k] = {U_bad, U_good}

\* DialBestUpstream against the two upstreams of the scenario: a dial of U_bad
\* fails at once, and fails with the deadline error once the dial deadline of
\* the call has passed; a dial of U_good succeeds
RetryStep(k) ==
    \/ D_Begin(k)
    \/ D_Choose(k)
    \/ up[k] = U_good /\ D_DialOk(k)
    \/ up[k] = U_bad /\ D_DialFailed(k)
    \/ up[k] = U_bad /\ D_DialTimeout(k)
    \/ D_DialSucceeded(k)
    \/ D_Close(k)

NextRetry == \E k \in DialCallers : RetryStep(k)

SpecRetry == InitRetry /\ [][NextRetry]_vars

\* the goroutine of a DialBestUpstream call runs, and every call of
\* ChooseBestUpstream and of DialUpstream returns; nothing is assumed of what
\* the caller does with the connection
InDialBestUpstream(k) ==
    \/ D_Begin(k)
    \/ D_Choose(k)
    \/ up[k] = U_good /\ D_DialOk(k)
    \/ up[k] = U_bad /\ D_DialFailed(k)
    \/ up[k] = U_bad /\ D_DialTimeout(k)
    \/ D_DialSucceeded(k)

SpecRetryLive == SpecRetry /\ \A k \in DialCallers : WF_vars(InDialBestUpstream(k))

\* LeastConnectionDialPolicy alone, as its tests drive it
InitPolicy ==
    /\ InitShared
    /\ InitWorkers
    /\ InitConns
    /\ InitUnits
    /\ pending = {}

PolicyRest == <<resByClient, workerVars, connVars, beliefStateByUpstream,
                events, authzUnitVars, componentVars>>

\* policy.ChooseBestUpstream(candidates); the harness records the arguments,
\* the counts the call found and its result
P_Choose(candidates) ==
    /\ \E r \in ChooseBestUpstream(connectionCount, candidates) : polChoice' = r
    /\ polCands' = candidates
    /\ polSeen' = connectionCount
    /\ UNCHANGED connectionCount
    /\ UNCHANGED PolicyRest

\* policy.DialSucceeded(u)
P_DialSucceeded(u) ==
    /\ Get(connectionCount, u) < MaxOpen
    /\ connectionCount' = DialSucceeded(connectionCount, u)
    /\ polChoice' = NoChoice
    /\ UNCHANGED <<polCands, polSeen>>
    /\ UNCHANGED PolicyRest

\* policy.ConnectionClosed(u), for a connection that was opened
P_ConnectionClosed(u) ==
    /\ Get(connectionCount, u) > 0
    /\ connectionCount' = ConnectionClosed(connectionCount, u)
    /\ polChoice' = NoChoice
    /\ UNCHANGED <<polCands, polSeen>>
    /\ UNCHANGED PolicyRest

NextPolicy ==
    \/ \E candidates \in SUBSET Upstreams : P_Choose(candidates)
    \/ \E u \in Upstreams : P_DialSucceeded(u)
    \/ \E u \in Upstreams : P_ConnectionClosed(u)

SpecPolicy == InitPolicy /\ [][NextPolicy]_vars

\* the balancing scenario: every connection of the server is inside
\* DialBestUpstream with both upstreams as candidates, both upstreams accept,
\* and the clients hold their connections open
InitBalance ==
    /\ InitShared
    /\ InitWorkers
    /\ InitUnits
    /\ pending = {}
    /\ pc = [k \in Conns |-> "dial_begin"]
    /\ cid = [k \in Conns |-> NoClient]
    /\ cands = [k \in Conns |-> Upstreams]
    /\ up = [k \in Conns |-> NoUpstream]
    /\ path = [k \in Conns |-> "none"]
    /\ log = [k \in Conns |-> NewLog]
    /\ crashed = FALSE

BalanceStep(k) ==
    \/ D_Begin(k)
    \/ D_Choose(k)
    \/ D_DialOk(k)
    \/ D_DialSucceeded(k)

\* one goroutine per accepted connection
NextBalance == \E k \in Conns : BalanceStep(k)

SpecBalance == InitBalance /\ [][NextBalance]_vars

\* a BeliefHealthTracker alone: made with some Config for some of the
\* upstreams, then sent reports for registered and unregistered upstreams and
\* asked for the healthy ones. With a threshold of MaxUint8 one upstream is
\* registered.
InitTracker ==
    /\ resByClient = EmptyMap
    /\ connectionCount = EmptyMap
    /\ InitWorkers
    /\ InitConns
    /\ pending = {}
    /\ events = [k \in Conns |-> <<>>]
    /\ polCands = {}
    /\ polChoice = NoChoice
    /\ polSeen = EmptyMap
    /\ azConfig = StaticConfig
    /\ azClient = NoClient
    /\ azResult = {}
    /\ pool = NoPool
    /\ fwd = NoForward
    /\ stream = NoStream
    /\ \E cfg \in Configs, registered \in SUBSET Upstreams :
          /\ MaxUint8 \in {cfg.MinFailuresToInferUnhealthy,
                           cfg.MinSuccessesToInferHealthy} => registered = {"u1"}
          /\ beliefStateByUpstream = NewBeliefHealthTrackerWith(registered, cfg)
          /\ reports = [registered |-> registered, cfg |-> cfg, last |-> NoReport,
                        run |-> EmptyMap, query |-> NoQuery]

NextTracker ==
    \/ \E u \in Upstreams, result \in {CheckSuccess, CheckFail} :
           T_ReportUpstreamHealth(u, result, reports.cfg)
    \/ \E candidates \in SUBSET Upstreams : T_HealthyUpstreams(candidates)

SpecTracker == InitTracker /\ [][NextTracker]_vars

\* a ProbePool alone, with callers of Start and Stop
InitPool ==
    /\ InitShared
    /\ InitWorkers
    /\ InitConns
    /\ pending = {}
    /\ events = [k \in Conns |-> <<>>]
    /\ polCands = {}
    /\ polChoice = NoChoice
    /\ polSeen = EmptyMap
    /\ azConfig = StaticConfig
    /\ azClient = NoClient
    /\ azResult = {}
    /\ reports = NoReports
    /\ fwd = NoForward
    /\ stream = NoStream
    /\ pool = NewProbePool

NextPool ==
    \/ PP_Start
    \/ PP_Stop
    \/ PP_StopReturn
    \/ \E i \in 1..(MaxStarts * Cardinality(Upstreams)) :
           \/ PW_Tick(i)
           \/ \E err \in {ErrNil, ProbeDialError} : PW_Report(i, err)
           \/ PW_Exit(i)

SpecPool == InitPool /\ [][NextPool]_vars

\* one Forward call, its two workers, and the peers, the network and the
\* owner of ctx as the environment
InitForward ==
    /\ InitShared
    /\ InitWorkers
    /\ InitConns
    /\ pending = {}
    /\ events = [k \in Conns |-> <<>>]
    /\ polCands = {}
    /\ polChoice = NoChoice
    /\ polSeen = EmptyMap
    /\ azConfig = StaticConfig
    /\ azClient = NoClient
    /\ azResult = {}
    /\ reports = NoReports
    /\ pool = NoPool
    /\ fwd = NewForward
    /\ stream = NoStream

NextForward ==
    \/ \E cdErr \in BOOLEAN, udErr \in BOOLEAN : F_Period(cdErr, udErr)
    \/ \E x \in FwdWorkers : W_Take(x)
    \/ \E x \in FwdWorkers, nr \in 0..MaxChunk, written \in 0..MaxChunk,
          err \in {ErrNil, ErrDeadlineExceeded, CopyError} : W_Copy(x, nr, written, err)
    \/ \E x \in FwdWorkers : W_Send(x)
    \/ \E x \in FwdWorkers : W_Exit(x)
    \/ F_Cancel
    \/ F_SelectDone
    \/ \E x \in FwdWorkers, cwErr \in BOOLEAN : F_SelectResult(x, cwErr)
    \/ F_PeriodEnd
    \/ \E cdErr \in BOOLEAN, udErr \in BOOLEAN : F_Return(cdErr, udErr)

SpecForward == InitForward /\ [][NextForward]_vars

\* Forward's goroutine runs when it can, and its select takes a case that is
\* ready again and again (the runtime chooses among the ready cases at
\* random); nothing is assumed of the peers or of the copy workers.
ForwardFairness ==
    /\ WF_vars(\E cdErr \in BOOLEAN, udErr \in BOOLEAN : F_Period(cdErr, udErr))
    /\ SF_vars(F_SelectDone)
    /\ WF_vars(F_PeriodEnd)
    /\ WF_vars(\E cdErr \in BOOLEAN, udErr \in BOOLEAN : F_Return(cdErr, udErr))

SpecForwardLive == SpecForward /\ ForwardFairness

\* the next step of the goroutine of worker x
W_Step(x) ==
    \/ W_Take(x)
    \/ \E nr \in 0..MaxChunk, written \in 0..MaxChunk,
          err \in {ErrNil, ErrDeadlineExceeded, CopyError} : W_Copy(x, nr, written, err)
    \/ W_Send(x)
    \/ W_Exit(x)

\* the goroutine of a copy worker runs when it can, and an io.Copy returns:
\* the deadline of the period ends a Read or Write that blocks; Forward's
\* select takes a result that is ready, unless the inner loop ends first
WorkerFairness ==
    \A x \in FwdWorkers :
        /\ WF_vars(W_Step(x))
        /\ WF_vars(\E cwErr \in BOOLEAN : F_SelectResult(x, cwErr))

SpecForwardDrain == SpecForward /\ WorkerFairness

\* the same call, with the bytes its workers move
InitStream ==
    /\ InitShared
    /\ InitWorkers
    /\ InitConns
    /\ pending = {}
    /\ events = [k \in Conns |-> <<>>]
    /\ polCands = {}
    /\ polChoice = NoChoice
    /\ polSeen = EmptyMap
    /\ azConfig = StaticConfig
    /\ azClient = NoClient
    /\ azResult = {}
    /\ reports = NoReports
    /\ pool = NoPool
    /\ fwd = NewForward
    /\ stream = NewStream

NextStream ==
    \/ \E cdErr \in BOOLEAN, udErr \in BOOLEAN : F_Period(cdErr, udErr)
    \/ \E x \in FwdWorkers : W_Take(x)
    \/ \E x \in FwdWorkers, nr \in 0..MaxChunk, written \in 0..MaxChunk,
          err \in {ErrNil, ErrDeadlineExceeded, CopyError} :
             W_CopyBytes(x, nr, written, err)
    \/ \E x \in FwdWorkers : W_Send(x)
    \/ \E x \in FwdWorkers : W_Exit(x)
    \/ F_Cancel
    \/ F_SelectDone
    \/ \E x \in FwdWorkers, cwErr \in BOOLEAN : F_SelectResult(x, cwErr)
    \/ F_PeriodEnd
    \/ \E cdErr \in BOOLEAN, udErr \in BOOLEAN : F_Return(cdErr, udErr)

SpecStream == InitStream /\ [][NextStream]_vars

(***************************************************************************)
(* Properties of the reserver (SpecReserver, SpecMisuse).                  *)
(***************************************************************************)
Count(c) == Get(resByClient, c)

\* worker w's successful TryReserve has taken effect and its release has not
Held(w) ==
    \/ wpc[w] \in {"holding", "rl_read", "rl_write"}
    \/ wpc[w] = "tr_unlock" /\ wres[w] = ErrNil

HeldBy(c) == {w \in Workers : WorkerClient(w) = c /\ Held(w)}

\* C1: under any interleaving of TryReserve and of ReleaseReservation by the
\* holders of successful reservations, every client's count stays within
\* 0 .. MaxReservationsPerClient.
C1_CountWithinBounds ==
    \A c \in Clients : 0 <= Count(c) /\ Count(c) <= MaxReservationsPerClient

\* a client sits at the limit and one more TryReserve of it is being refused
C1_Witness ==
    \E w \in Workers :
        /\ wpc[w] = "tr_unlock"
        /\ wres[w] = MaxReservationsExceeded
        /\ Count(WorkerClient(w)) = MaxReservationsPerClient

\* C2: TryReserve(c) returns MaxReservationsExceeded and changes nothing if and
\* only if c's count equals MaxReservationsPerClient; otherwise it returns nil
\* and c's count grows by exactly one; no other client's count changes.
C2_TryReserveOutcome ==
    [][\A w \in Workers :
        LET c == WorkerClient(w)
            n == Count(c)
        IN  /\ (wpc[w] = "tr_read" /\ wpc'[w] # "tr_read") =>
                  IF n = MaxReservationsPerClient
                  THEN /\ wpc'[w] = "tr_unlock"
                       /\ wres'[w] = MaxReservationsExceeded
                       /\ resByClient' = resByClient
                  ELSE /\ wpc'[w] = "tr_write"
                       /\ resByClient' = resByClient
            /\ (wpc[w] = "tr_write" /\ wpc'[w] # "tr_write") =>
                  /\ n # MaxReservationsPerClient
                  /\ wpc'[w] = "tr_unlock"
                  /\ wres'[w] = ErrNil
                  /\ Get(resByClient', c) = n + 1
                  /\ \A d \in Clients \ {c} : Get(resByClient', d) = Get(resByClient, d)
            /\ (wpc[w] = "tr_unlock" /\ wpc'[w] # "tr_unlock") =>
                  /\ wres[w] \in {ErrNil, MaxReservationsExceeded}
                  /\ resByClient' = resByClient
      ]_vars

\* a TryReserve returned nil for one client while the other client's count is
\* not zero and a third call is being refused
C2_Witness ==
    \E w \in Workers, v \in Workers :
        /\ WorkerClient(w) # WorkerClient(v)
        /\ wpc[w] = "tr_unlock" /\ wres[w] = ErrNil
        /\ Count(WorkerClient(w)) = 1
        /\ Count(WorkerClient(v)) = MaxReservationsPerClient

\* C3: ReleaseReservation for a client that holds no reservation returns the
\* error NoReservationExists.  (wn[w] < 0 at the return: the count read was 0.)
C3_FictitiousReleaseReturnsError ==
    \A w \in Workers :
        (wcall[w] = "ReleaseReservation" /\ wres[w] # NoResult /\ wn[w] < 0)
            => wres[w] = NoReservationExists

\* what the code does instead: it stores -1 and panics
C3_FictitiousReleasePanics ==
    \E w \in Workers :
        /\ wcall[w] = "ReleaseReservation"
        /\ wres[w] = Panicked
        /\ Count(WorkerClient(w)) = -1

\* C4: once a release has completed the table holds no entry with count 0: a
\* client's key is in the table if and only if its count is positive (which
\* is if and only if somebody holds a reservation of it).
C4_NoZeroEntries ==
    /\ \A c \in DOMAIN resByClient : resByClient[c] > 0
    /\ \A c \in Clients : c \in DOMAIN resByClient <=> HeldBy(c) # {}

\* a release that brought its client to zero has completed and the key is
\* gone, while the other client's key is in the table
C4_Witness ==
    \E w \in Workers, d \in Clients :
        /\ wpc[w] = "rl_unlock" /\ wres[w] = ErrNil
        /\ WorkerClient(w) \notin DOMAIN resByClient
        /\ d \in DOMAIN resByClient

\* C5: with more goroutines per client than the limit, all reserving and
\* releasing concurrently: a TryReserve ends in nil or MaxReservationsExceeded
\* only, no release fails, a client's count is the number of reservations
\* held for it (the calls take effect one at a time) and never above the
\* limit, and when every goroutine has finished every count is zero.
C5_ConcurrentUse ==
    /\ \A w \in Workers :
        /\ wpc[w] # "panicked"
        /\ wcall[w] = "TryReserve" =>
              wres[w] \in {NoResult, ErrNil, MaxReservationsExceeded}
        /\ wcall[w] = "ReleaseReservation" => wres[w] \in {NoResult, ErrNil}
    /\ \A c \in Clients :
        /\ Count(c) = Cardinality(HeldBy(c))
        /\ Cardinality(HeldBy(c)) <= MaxReservationsPerClient
    /\ (\A w \in Workers : wpc[w] = "finished") => resByClient = EmptyMap

\* both clients are at the limit at once, a goroutine has been refused and
\* finished, and another is releasing
C5_Witness ==
    /\ \A c \in Clients : Cardinality(HeldBy(c)) = MaxReservationsPerClient
    /\ \E w \in Workers : wpc[w] = "finished"
    /\ \E w \in Workers : wpc[w] = "rl_write"

(***************************************************************************)
(* Properties of the handler pipeline (Spec, SpecHealth).                  *)
(***************************************************************************)
\* where a connection is inside the handler RateLimitingHandler wraps
PastRateLimit ==
    {"authz", "dial_begin", "choose", "dialing", "connected", "forwarding",
     "close_upstream", "release"}

\* where a connection is inside ForwardingHandler
InForwarding ==
    {"dial_begin", "choose", "dialing", "connected", "forwarding", "close_upstream"}

\* RateLimitingHandler.Handle has returned
RateLimitReturned(k) == pc[k] \in {"close_client", "done"} /\ path[k] # "authn_failed"

\* the ClientIDs the configured Authorizer grants no upstream
UnauthorizedClients == {c \in AuthnClients : AuthorizedUpstreams(c) = {}}

NothingUpstream(k) ==
    /\ log[k].dialerCalls = 0
    /\ ~log[k].policyCalled
    /\ ~log[k].dialed
    /\ log[k].upConns = 0
    /\ log[k].forwards = 0

\* C6: a successful TryReserve is followed by exactly one ReleaseReservation
\* for the same ClientID when the inner handler exits, whatever the exit
\* (return, unauthorized, dial failure, panic); a connection whose TryReserve
\* failed is never released.
C6_ReservePairedWithRelease ==
    \A k \in Conns :
        /\ log[k].reserves <= 1
        /\ log[k].releases <= log[k].reserves
        /\ log[k].releases = 1 => log[k].releasedFor = log[k].reservedFor
        /\ pc[k] \in PastRateLimit => log[k].reserves = 1 /\ log[k].releases = 0
        /\ RateLimitReturned(k) => log[k].releases = log[k].reserves
        /\ path[k] = "rate_limited" => log[k].reserves = 0 /\ log[k].releases = 0

\* a handler that panicked while forwarding has released its reservation, and
\* a refused connection has left without a release
C6_Witness ==
    \E k \in Conns, j \in Conns :
        /\ path[k] = "panic" /\ pc[k] = "close_client"
        /\ log[k].reserves = 1 /\ log[k].releases = 1
        /\ path[j] = "rate_limited" /\ pc[j] = "done"

\* C7: for every ClientID the connections past the rate-limiting layer are
\* never more than MaxReservationsPerClient, and a connection that finds the
\* limit reached is closed with no authorizer call, no policy call, no dial
\* and no upstream connection.
C7_RateLimited ==
    /\ \A c \in AuthnClients :
          Cardinality({k \in Conns : cid[k] = c /\ pc[k] \in PastRateLimit})
              <= MaxReservationsPerClient
    /\ \A k \in Conns :
          path[k] = "rate_limited" =>
              /\ log[k].authzCalls = 0
              /\ NothingUpstream(k)
              /\ pc[k] \in {"close_client", "done"}
              /\ pc[k] = "done" => log[k].clientCloses = 1

\* MaxReservationsPerClient connections of one client are being forwarded and
\* one more of the same client was refused and closed
C7_Witness ==
    \E c \in AuthnClients, j \in Conns :
        /\ Cardinality({k \in Conns : cid[k] = c /\ pc[k] = "forwarding"})
              = MaxReservationsPerClient
        /\ Count(c) = MaxReservationsPerClient
        /\ path[j] = "rate_limited" /\ pc[j] = "done" /\ log[j].clientCloses = 1

\* C8: on every exit path the client connection is closed exactly once, by
\* ConnCloserHandler, after every inner layer has returned: the reservation
\* is released and the upstream connection closed before.
C8_ClientClosedOnce ==
    \A k \in Conns :
        /\ log[k].clientCloses = (IF pc[k] = "done" THEN 1 ELSE 0)
        /\ pc[k] \in {"close_client", "done"} =>
              /\ log[k].releases = log[k].reserves
              /\ log[k].upCloses = log[k].upConns
              /\ cid[k] = NoClient /\ up[k] = NoUpstream

\* three connections closed on three different exit paths
C8_Witness ==
    \E i \in Conns, j \in Conns, k \in Conns :
        /\ pc[i] = "done" /\ path[i] = "authn_failed"
        /\ pc[j] = "done" /\ path[j] = "dial_timeout"
        /\ pc[k] = "done" /\ path[k] = "forwarded" /\ log[k].upCloses = 1
        /\ log[i].clientCloses = 1 /\ log[j].clientCloses = 1 /\ log[k].clientCloses = 1

\* C9: a connection whose ClientID has an empty authorized upstream set never
\* enters the forwarding layer: no DialBestUpstream, no policy choice, no dial,
\* no upstream connection; its reservation is released and it is closed.
C9_UnauthorizedClosed ==
    \A k \in Conns :
        /\ cid[k] \in UnauthorizedClients => pc[k] \notin InForwarding
        /\ log[k].reservedFor \in UnauthorizedClients =>
              /\ NothingUpstream(k)
              /\ pc[k] \in {"authz", "release", "close_client", "done"}
              /\ pc[k] \in {"release", "close_client", "done"} => path[k] = "unauthorized"
              /\ pc[k] \in {"close_client", "done"} => log[k].releases = 1
              /\ pc[k] = "done" => log[k].clientCloses = 1

\* an authenticated client without authorized upstreams was turned away, its
\* reservation released and its connection closed
C9_Witness ==
    \E k \in Conns :
        /\ pc[k] = "done" /\ path[k] = "unauthorized"
        /\ log[k].authzCalls = 1 /\ log[k].reservedFor = "eve"
        /\ log[k].releases = 1 /\ log[k].clientCloses = 1
        /\ Count("eve") = 0

\* C10: the forwarding layer hands the dialer only upstreams believed HEALTHY:
\* an upstream believed UNHEALTHY when the policy selects is never chosen.
C10_UnhealthyNeverChosen ==
    \A k \in Conns : log[k].beliefAtChoice # UNHEALTHY

\* what the code does: client traffic is forwarded to an upstream the tracker
\* believed UNHEALTHY when it was chosen, and still believes UNHEALTHY
C10_ForwardsToUnhealthy ==
    \E k \in Conns :
        /\ pc[k] = "forwarding"
        /\ log[k].beliefAtChoice = UNHEALTHY
        /\ beliefStateByUpstream[up[k]].state = UNHEALTHY
        /\ HealthyUpstreams(beliefStateByUpstream, cands[k]) = {}

\* ForwardingHandler.Handle has returned
ForwardingReturned(k) == pc[k] \in {"release", "close_client", "done"}

\* C11: an upstream connection DialBestUpstream returned is closed exactly
\* once by ForwardingHandler, after Forwarder.Forward has returned (or
\* panicked); when DialBestUpstream fails there is no upstream connection and
\* none is closed.
C11_UpstreamClosedOnce ==
    \A k \in Conns :
        /\ log[k].upConns <= 1
        /\ log[k].upCloses <= log[k].upConns
        /\ log[k].upCloses = 1 => log[k].forwards = 1
        /\ pc[k] \in {"connected", "forwarding", "close_upstream"} =>
              log[k].upConns = 1 /\ log[k].upCloses = 0
        /\ ForwardingReturned(k) => log[k].upCloses = log[k].upConns
        /\ path[k] \in {"dial_error", "dial_timeout"} =>
              log[k].upConns = 0 /\ log[k].upCloses = 0 /\ log[k].forwards = 0

\* one handler has closed its upstream connection after forwarding, another
\* has left after a failed DialBestUpstream, with nothing to close
C11_Witness ==
    \E j \in Conns, k \in Conns :
        /\ pc[j] = "release" /\ path[j] = "forwarded"
        /\ log[j].upConns = 1 /\ log[j].upCloses = 1
        /\ pc[k] = "release" /\ path[k] = "dial_timeout"
        /\ log[k].dialed /\ log[k].upConns = 0

(***************************************************************************)
(* Properties of the authorizer (SpecAuthz).                               *)
(***************************************************************************)
\* the members of an upstream group, the upstream groups of a group and the
\* groups of a client; a key without a mapping has none
MembersOf(config, ug) ==
    IF ug \in DOMAIN config.UpstreamsByUpstreamGroup
    THEN config.UpstreamsByUpstreamGroup[ug] ELSE {}

UpstreamGroupsOf(config, g) ==
    IF g \in DOMAIN config.UpstreamGroupsByGroup
    THEN Range(config.UpstreamGroupsByGroup[g]) ELSE {}

GroupsOf(config, c) ==
    IF c \in DOMAIN config.GroupsByClientID
    THEN Range(config.GroupsByClientID[c]) ELSE {}

UnionOverGroups(config, c) ==
    UNION {UNION {MembersOf(config, ug) : ug \in UpstreamGroupsOf(config, g)}
             : g \in GroupsOf(config, c)}

\* C12: AuthorizedUpstreams(c) returns exactly the union, over the groups of c
\* and their upstream groups, of the members; an unknown client, an unmapped
\* group and an unmapped upstream group contribute the empty set; the call
\* leaves the configuration as it was.
C12_AuthorizedUpstreamsIsUnion ==
    [][/\ azClient' # NoClient =>
            /\ azResult' = UnionOverGroups(azConfig, azClient')
            /\ azClient' \notin DOMAIN azConfig.GroupsByClientID => azResult' = {}
       /\ azConfig' = azConfig
      ]_vars

\* a client of two groups, one of them unmapped, the other with two upstream
\* groups of one upstream each: the result is the union of the two
C12_Witness ==
    /\ azClient = "alice"
    /\ "alice" \in DOMAIN azConfig.GroupsByClientID
    /\ azConfig.GroupsByClientID["alice"] = <<"g1", "g2">>
    /\ DOMAIN azConfig.UpstreamGroupsByGroup = {"g2"}
    /\ azConfig.UpstreamGroupsByGroup["g2"] = <<"ug1", "ug2">>
    /\ DOMAIN azConfig.UpstreamsByUpstreamGroup = {"ug1", "ug2"}
    /\ azConfig.UpstreamsByUpstreamGroup["ug1"] = {"u1"}
    /\ azConfig.UpstreamsByUpstreamGroup["ug2"] = {"u2"}
    /\ azResult = {"u1", "u2"}

(***************************************************************************)
(* Properties of the retry dialer (SpecDialer, SpecReclose).               *)
(***************************************************************************)
\* DialBestUpstream returned a connection to caller k
ReturnedConn(k) == pc[k] \in {"forwarding", "closed"}

\* DialBestUpstream returned an error to caller k
ReturnedError(k) == pc[k] = "release"

Last(evs) == evs[Len(evs)]

C14_CloseNotifiesOnce ==
    \A k \in DialCallers : CountCalls(events[k], "ConnectionClosed") <= 1

\* what the code does: the second Close notifies again, and the count of the
\* upstream falls below zero
C14_SecondCloseNotifiesAgain ==
    \E k \in DialCallers :
        /\ pc[k] = "closed" /\ log[k].upCloses = 2
        /\ CountCalls(events[k], "ConnectionClosed") = 2
        /\ Get(connectionCount, up[k]) = -1

\* C15: a failed dial attempt is reported to the policy by one DialFailed if
\* the dial deadline has not passed when it returns, and the call goes on to
\* choose again; if the deadline has passed the call returns the deadline
\* error and the attempt is followed by no DialFailed and no DialSucceeded.
C15_DialFailedUnlessExpired ==
    \A k \in DialCallers :
        LET evs == events[k] IN
        /\ \A i \in DOMAIN evs :
              /\ evs[i][1] = "DialFailed" =>
                    i > 1 /\ evs[i - 1] = PolicyCall("ChooseBestUpstream", evs[i][2])
              /\ (evs[i][1] = "ChooseBestUpstream" /\ i < Len(evs)) =>
                    evs[i + 1] \in {PolicyCall("DialFailed", evs[i][2]),
                                    PolicyCall("DialSucceeded", evs[i][2])}
        /\ (pc[k] = "choose" /\ evs # <<>>) => Last(evs)[1] = "DialFailed"
        /\ pc[k] = "choose" =>
              CountCalls(evs, "ChooseBestUpstream") = CountCalls(evs, "DialFailed")
        /\ pc[k] = "dialing" =>
              CountCalls(evs, "ChooseBestUpstream") = CountCalls(evs, "DialFailed") + 1
        /\ path[k] = "dial_timeout" =>
              /\ ReturnedError(k)
              /\ Last(evs)[1] = "ChooseBestUpstream"
              /\ CountCalls(evs, "ChooseBestUpstream") = CountCalls(evs, "DialFailed") + 1
              /\ CountCalls(evs, "DialSucceeded") = 0

\* a call whose first attempt failed in time and whose second ran out of time
C15_Witness ==
    \E k \in DialCallers :
        /\ path[k] = "dial_timeout"
        /\ Len(events[k]) = 3
        /\ events[k][2][1] = "DialFailed"
        /\ events[k][3][1] = "ChooseBestUpstream"

\* C17: DialBestUpstream with no candidates returns NoCandidateUpstreams at
\* once: no connection, no policy call, no dial, no connection count changed.
C17_NoCandidatesReturnsAtOnce ==
    [][\A k \in DialCallers :
          (pc[k] = "dial_begin" /\ cands[k] = {} /\ pc'[k] # pc[k]) =>
              /\ pc'[k] = "release" /\ path'[k] = "dial_error"
              /\ up'[k] = NoUpstream
              /\ events'[k] = <<>>
              /\ ~log'[k].policyCalled /\ ~log'[k].dialed /\ log'[k].upConns = 0
              /\ connectionCount' = connectionCount
      ]_vars

\* a call without candidates has returned while the other caller holds a
\* connection
C17_Witness ==
    \E j \in DialCallers, k \in DialCallers :
        /\ ReturnedError(k) /\ path[k] = "dial_error" /\ events[k] = <<>>
        /\ log[k].dialerCalls = 1
        /\ pc[j] = "forwarding" /\ Get(connectionCount, up[j]) = 1

\* connections to u that DialBestUpstream returned and nobody closed yet
OpenTo(u) == {k \in DialCallers : pc[k] = "forwarding" /\ up[k] = u}

\* C19: the count of an upstream is the number of connections to it that
\* DialBestUpstream returned and that are not closed yet; it is never negative.
C19_CountIsOpenConnections ==
    \A u \in Upstreams :
        /\ Get(connectionCount, u) = Cardinality(OpenTo(u))
        /\ Get(connectionCount, u) >= 0

\* what the code does when Close is called twice: one connection, closed,
\* and a count of -1 although the other caller's connection to the upstream
\* is still open
C19_CountBelowOpen ==
    \E u \in Upstreams :
        /\ Cardinality(OpenTo(u)) = 1
        /\ Get(connectionCount, u) < Cardinality(OpenTo(u))

\* C16: with candidates {U_bad, U_good}, every DialBestUpstream call returns
\* a connection to U_good, and the policy has seen one DialFailed(U_bad) for
\* the call.
C16_OneFailureThenGood ==
    \A k \in DialCallers :
        /\ ~ReturnedError(k)
        /\ ReturnedConn(k) =>
              /\ up[k] = U_good
              /\ CountCalls(events[k], "DialFailed") = 1

\* what the code does: while the other caller holds a connection to U_good,
\* the policy chooses U_bad (count 0 against 1) on every attempt, DialFailed
\* changes nothing, and the call ends with the deadline error
C16_BadChosenUntilDeadline ==
    \E j \in DialCallers, k \in DialCallers :
        /\ pc[j] = "forwarding" /\ up[j] = U_good
        /\ Get(connectionCount, U_good) = 1
        /\ ReturnedError(k) /\ path[k] = "dial_timeout"
        /\ CountCalls(events[k], "DialFailed") = MaxDialAttempts
        /\ \A i \in DOMAIN events[k] : events[k][i][2] = U_bad

(***************************************************************************)
(* Properties of LeastConnectionDialPolicy (SpecPolicy).                   *)
(***************************************************************************)
\* C18: ChooseBestUpstream returns NoCandidateUpstreams exactly when there is
\* no candidate; otherwise it returns a candidate whose count (0 if it has no
\* entry) is at most that of every candidate, so never one with more
\* connections than another candidate; the call changes no count.
C18_ChoosesLeastLoaded ==
    polChoice # NoChoice =>
        /\ connectionCount = polSeen
        /\ polChoice.err = NoCandidateUpstreams <=> polCands = {}
        /\ polCands = {} => polChoice.upstream = NoUpstream
        /\ polCands # {} =>
              /\ polChoice.err = ErrNil
              /\ polChoice.upstream \in polCands
              /\ \A v \in polCands :
                    Get(polSeen, polChoice.upstream) <= Get(polSeen, v)

\* the first upstream has one connection, the other has no entry, both are
\* candidates and the other one is chosen
C18_Witness ==
    \E u \in Upstreams, v \in Upstreams :
        /\ polCands = {u, v} /\ u # v
        /\ Get(polSeen, u) = 1 /\ v \notin DOMAIN polSeen
        /\ polChoice = [upstream |-> v, err |-> ErrNil]

(***************************************************************************)
(* Properties of the balancing scenario (SpecBalance).                     *)
(***************************************************************************)
\* the test's expectedPeakConnections: clientCount / 2
ExpectedPeak == NumConns \div 2

\* C20: with all connections handled concurrently and held open, the number
\* of open connections of each upstream never exceeds half the connections
\* plus one, and is at least half minus one when all are connected.
C20_PeakWithinOneOfHalf ==
    \A u \in Upstreams :
        /\ Get(connectionCount, u) <= ExpectedPeak + 1
        /\ (\A k \in Conns : pc[k] = "forwarding") =>
              Get(connectionCount, u) >= ExpectedPeak - 1

\* what the code allows: every handler asks the policy before any of them
\* reports DialSucceeded, all get the same upstream, and all connections are
\* open on it
C20_AllOnOneUpstream ==
    \E u \in Upstreams :
        /\ \A k \in Conns : pc[k] = "forwarding" /\ up[k] = u
        /\ Get(connectionCount, u) = NumConns
        /\ \A v \in Upstreams \ {u} : Get(connectionCount, v) = 0

SpecifiedTransition(s, result) ==
    IF result = CheckSuccess
    THEN LET succ == IF s.successes + 1 < s.cfg.MinSuccessesToInferHealthy
                     THEN s.successes + 1 ELSE s.cfg.MinSuccessesToInferHealthy IN
         [cfg |-> s.cfg,
          state |-> IF succ >= s.cfg.MinSuccessesToInferHealthy THEN HEALTHY ELSE s.state,
          failures |-> 0,
          successes |-> succ]
    ELSE LET fail == IF s.failures + 1 < s.cfg.MinFailuresToInferUnhealthy
                     THEN s.failures + 1 ELSE s.cfg.MinFailuresToInferUnhealthy IN
         [cfg |-> s.cfg,
          state |-> IF fail >= s.cfg.MinFailuresToInferUnhealthy THEN UNHEALTHY ELSE s.state,
          failures |-> fail,
          successes |-> 0]

\* C22: every report for a registered upstream applies the specified
\* transition: the counter of the reported result becomes min(counter + 1,
\* threshold), the other counter 0, and the state changes when and only when
\* the threshold is reached; before any report the state is the Prior.
C22_ReportAppliesTransition ==
    [][/\ \A u \in reports.registered :
             u \notin DOMAIN reports.run =>
                beliefStateByUpstream[u].state = reports.cfg.Prior
       /\ \A u \in reports.registered, result \in {CheckSuccess, CheckFail} :
             T_ReportUpstreamHealth(u, result, reports.cfg) =>
                beliefStateByUpstream'[u] =
                   SpecifiedTransition(beliefStateByUpstream[u], result)
      ]_vars

\* what the code does with a threshold of 255: the report after the counter
\* reached 255 takes it to 0
C22_CounterWraps ==
    \E u \in reports.registered :
        /\ reports.cfg.MinSuccessesToInferHealthy = MaxUint8
        /\ RunOf(u) = [result |-> CheckSuccess, n |-> MaxUint8 + 1]
        /\ beliefStateByUpstream[u].successes = 0
        /\ beliefStateByUpstream[u].state = HEALTHY

\* C23: HealthyUpstreams(candidates) is the set of the candidates that were
\* registered at construction and are believed HEALTHY; a report for an
\* unregistered upstream changes no belief state and registers nothing.
C23_HealthyAreRegisteredCandidates ==
    [][/\ DOMAIN beliefStateByUpstream' = reports'.registered
       /\ reports'.query.made =>
             /\ reports'.query.result =
                   {u \in reports'.query.candidates :
                       /\ u \in reports'.registered
                       /\ beliefStateByUpstream'[u].state = HEALTHY}
             /\ reports'.query.result \subseteq reports'.query.candidates
       /\ \A u \in Upstreams \ reports.registered, result \in {CheckSuccess, CheckFail} :
             T_ReportUpstreamHealth(u, result, reports.cfg) =>
                beliefStateByUpstream' = beliefStateByUpstream
      ]_vars

\* the tracker of u1 was sent CheckSuccess for u2 and then asked about both
\* upstreams; it answered u1
C23_Witness ==
    /\ reports.registered = {"u1"}
    /\ reports.last = [upstream |-> "u2", result |-> CheckSuccess]
    /\ reports.query = [made |-> TRUE, candidates |-> Upstreams, result |-> {"u1"}]

(***************************************************************************)
(* Properties of the probe pool (SpecPool).                                *)
(***************************************************************************)
\* C24: while the pool is started, one probe worker per upstream is running,
\* however many times Start was called.
C24_OneWorkerPerUpstream ==
    pool.started =>
        \A u \in Upstreams :
            Cardinality({i \in Live(pool) : pool.workers[i].upstream = u}) = 1

\* Start was called twice on the pool and its workers probe
C24_Witness ==
    /\ pool.started /\ pool.starts = 2 /\ pool.stops = 0
    /\ pool.reports > 0
    /\ Cardinality(Live(pool)) = Cardinality(Upstreams)

\* C25: a Stop that waits for the workers has cancelled the context of every
\* worker that is still running, so the wait ends; after Stop returned no
\* report is delivered until the pool is started again.
C25_StopCancelsEveryWorker ==
    /\ pool.mu = "Stop" =>
          \A i \in Live(pool) : pool.workers[i].ctx \in pool.cancelled
    /\ (pool.stopReturned /\ ~pool.started /\ pool.mu = "free") => Live(pool) = {}

\* what the code does after Start, Start, Stop: Stop cancelled the context the
\* second Start made, the workers run on the context of the first, and Stop
\* waits for them with the mutex held
C25_StopWaitsForever ==
    /\ pool.mu = "Stop" /\ pool.wg = Cardinality(Upstreams)
    /\ pool.cancelled = {2}
    /\ \A i \in Live(pool) : pool.workers[i].ctx = 1
    /\ Cardinality(Live(pool)) = Cardinality(Upstreams)

\* C26: once a Stop that stopped the workers has returned, the pool has no
\* probe worker and delivers no report, whatever is called on it.
C26_StopIsTerminal ==
    pool.stopReturned => (Live(pool) = {} /\ pool.lateReports = 0)

\* what the code does after Start, Stop, Start: new workers run and report
C26_RestartedAfterStop ==
    /\ pool.stopReturned /\ pool.started
    /\ Cardinality(Live(pool)) = Cardinality(Upstreams)
    /\ pool.lateReports = 1

(***************************************************************************)
(* Properties of ForwardingSupervisor.Forward (SpecForward).               *)
(***************************************************************************)
\* C27: when Forward has seen the end of both streams and both CloseWrite
\* calls succeeded, it returns nil, having called CloseWrite once on each
\* connection: on the upstream connection after the client reported EOF and
\* on the client connection after the upstream reported EOF.
C27_BothEOFReturnsNil ==
    /\ \A x \in FwdWorkers :
          /\ fwd.closeWrites[DstOf(x)] <= 1
          /\ fwd.closeWrites[DstOf(x)] = 1
                => ~fwd.w[x].WorkRemaining /\ fwd.eof[SrcOf(x)]
    /\ (/\ fwd.pc = "returned"
        /\ \A x \in FwdWorkers : ~fwd.w[x].WorkRemaining
        /\ \A i \in DOMAIN fwd.failures :
              fwd.failures[i] \notin {"unable to close-write client conn",
                                      "unable to close-write upstream conn"})
       => /\ fwd.result = ErrNil
          /\ fwd.failures = <<>>
          /\ \A x \in FwdWorkers : fwd.closeWrites[DstOf(x)] = 1

\* what the code does: the upstream finished first, and Forward called
\* CloseWrite on the upstream connection while the client had not finished
C27_UpstreamClosedOnItsOwnEOF ==
    /\ fwd.pc = "select"
    /\ fwd.closeWrites["upstream"] = 1 /\ fwd.closeWrites["client"] = 0
    /\ fwd.eof["upstream"] /\ ~fwd.eof["client"]
    /\ ~fwd.w["cu"].WorkRemaining /\ fwd.w["uc"].WorkRemaining

\* C28: Forward and its workers never call Close on either connection; they
\* call CloseWrite on a connection only after the source of the opposite
\* direction, the other connection, reported EOF.
C28_NeverClosesOnlyHalfCloses ==
    /\ \A c \in FwdConns :
          fwd.calls[c] \subseteq {"SetDeadline", "Write", "CloseWrite"}
    /\ \A c \in FwdConns :
          "CloseWrite" \in fwd.calls[c] => \E d \in FwdConns \ {c} : fwd.eof[d]

\* what the code does: the client finished sending while the upstream still
\* answers, and Forward shut down the write side of the client connection
C28_ClientClosedOnItsOwnEOF ==
    /\ "CloseWrite" \in fwd.calls["client"] /\ fwd.shut["client"]
    /\ fwd.eof["client"] /\ ~fwd.eof["upstream"]
    /\ "CloseWrite" \notin fwd.calls["upstream"]

\* C29: when a period ended with no byte written in either direction, both
\* workers still having work and no other failure, Forward has recorded the
\* idle timeout, released no further task, and returns an aggregate error.
C29_SilentPeriodIsIdleTimeout ==
    (fwd.last.ended /\ ~fwd.last.moved /\ fwd.last.active /\ ~fwd.last.otherFailure)
       => /\ fwd.pc \in {"terminal", "returned"}
          /\ fwd.failures[1] = IdleTimeoutErr
          /\ \A x \in FwdWorkers : fwd.w[x].In = 0 /\ fwd.w[x].Out = <<>>
          /\ fwd.pc = "returned" => fwd.result = "AggregateError"

\* two silent peers: Forward returned the idle timeout after one period
C29_Witness ==
    /\ fwd.pc = "returned" /\ fwd.result = "AggregateError"
    /\ fwd.failures = <<IdleTimeoutErr>>
    /\ fwd.periods = 1
    /\ \A c \in {"client", "upstream"} : fwd.calls[c] = {"SetDeadline"}

\* C30: the idle timeout is recorded only for a period in which no byte was
\* written; after a period with a byte written and no failure Forward ends
\* only when both streams ended, and otherwise begins another period with
\* new deadlines.
C30_ActiveIsNeverIdle ==
    /\ (\E i \in DOMAIN fwd.failures : fwd.failures[i] = IdleTimeoutErr)
          => (fwd.last.ended /\ ~fwd.last.moved)
    /\ (fwd.pc = "terminal" /\ ~hasFailed(fwd))
          => \A x \in FwdWorkers : ~fwd.w[x].WorkRemaining
    /\ fwd.pc = "select" => fwd.deadlinesSet = fwd.periods

\* a second period has begun after one in which only the client sent bytes
C30_Witness ==
    /\ fwd.pc = "select" /\ fwd.periods = 2 /\ fwd.deadlinesSet = 2
    /\ fwd.last.moved /\ fwd.last.active
    /\ "Write" \in fwd.calls["upstream"] /\ "Write" \notin fwd.calls["client"]
    /\ fwd.failures = <<>>

(***************************************************************************)
(* Cancellation of Forward (SpecForwardLive).                              *)
(***************************************************************************)
ContextFailure == "terminated by context"

\* the model follows a Forward call for MaxPeriods periods
PeriodsExhausted ==
    /\ fwd.pc = "period" /\ fwd.periods = MaxPeriods
    /\ fwd.w["cu"].WorkRemaining \/ fwd.w["uc"].WorkRemaining

\* C31 as stated: a Forward whose context was cancelled while a period was in
\* progress returns an aggregate error that holds "terminated by context".
C31_CancelRecordsContextFailure ==
    (fwd.pc = "returned" /\ fwd.ctxDoneInPeriod)
       => /\ fwd.result = "AggregateError"
          /\ ContextFailure \in Range(fwd.failures)

\* C31, amended: once the context is cancelled Forward returns, whatever the
\* peers and the copy workers do; when its select takes the cancellation it
\* leaves the inner loop at once, and it then returns an aggregate error
\* holding "terminated by context" after setting a deadline on both
\* connections once more than it began periods.
C31_CancelledForwardReturns ==
    /\ fwd.ctxDone ~> (fwd.pc = "returned" \/ PeriodsExhausted)
    /\ [][F_SelectDone => ~InnerLoopRuns(fwd')]_vars
    /\ [](ContextFailure \in Range(fwd.failures)
            => /\ fwd.ctxDone /\ fwd.pc \in {"select", "terminal", "returned"}
               /\ fwd.pc = "returned"
                     => /\ fwd.result = "AggregateError"
                        /\ fwd.deadlinesSet = fwd.periods + 1
                        /\ \A c \in {"client", "upstream"} :
                              "SetDeadline" \in fwd.calls[c])

\* Forward returned on the cancellation while the client had sent nothing and
\* its copy worker still held the period's task
C31_Witness ==
    /\ fwd.pc = "returned" /\ fwd.ctxDoneInPeriod
    /\ fwd.failures = <<ContextFailure>>
    /\ fwd.w["cu"].In = 1 /\ fwd.w["uc"].In = 1

(***************************************************************************)
(* The bytes Forward moves (SpecStream).                                   *)
(***************************************************************************)
\* no worker has seen an error other than the period's deadline
NoCopyFailure ==
    /\ ~hasFailed(fwd)
    /\ \A x \in FwdWorkers :
          /\ fwd.w[x].res.err # CopyError
          /\ fwd.w[x].Out # <<>> => Head(fwd.w[x].Out).err # CopyError

\* C32: as long as no copy failed, the bytes written to a connection are
\* exactly the bytes read from the other connection, in their order, also
\* when a period's deadline interrupted the copy and a later period resumed
\* it.
C32_ByteExact ==
    NoCopyFailure
       => \A c \in FwdConns : \A d \in FwdConns \ {c} :
             stream.delivered[d] = Bytes(0, stream.read[c])

\* what the code does: the first byte of the client was read and dropped when
\* the period's deadline ended the write to the upstream, Forward began
\* another period, and the second byte is the first the upstream received
C32_ByteLostAtDeadline ==
    /\ fwd.pc = "select" /\ fwd.periods = 2 /\ NoCopyFailure
    /\ stream.read["client"] = 2
    /\ stream.delivered["upstream"] = <<2>>

(***************************************************************************)
(* Properties of the recovery layer (SpecRecover).                         *)
(***************************************************************************)
\* C33: a panic of the inner handler never ends the process; when the
\* handler of a connection has returned after such a panic, RecovererHandler
\* has logged one record, of level error, with the panic's value and a
\* stack trace that is not empty, the reservation the connection held is
\* released and the client connection is closed once; a connection whose
\* handler did not panic has no such record.
C33_PanicRecoveredAndLogged ==
    /\ ~crashed
    /\ \A k \in Conns :
          /\ log[k].panicValue = NoResult => log[k].records = <<>>
          /\ (pc[k] = "done" /\ log[k].panicValue # NoResult)
                => /\ Len(log[k].records) = 1
                   /\ log[k].records[1].Level = ErrorLevel
                   /\ log[k].records[1].Msg = RecovererUnexpectedPanicMessage
                   /\ log[k].records[1].Details = log[k].panicValue
                   /\ log[k].records[1].StackTrace # <<>>
                   /\ log[k].releases = log[k].reserves
                   /\ Get(resByClient, log[k].reservedFor) =
                         Cardinality({j \in Conns \ {k} :
                                         /\ log[j].reservedFor = log[k].reservedFor
                                         /\ log[j].reserves = 1
                                         /\ log[j].releases = 0})
                   /\ log[k].clientCloses = 1

\* one handler panicked while forwarding and returned; the other connection
\* was accepted after that and is forwarding
C33_Witness ==
    /\ pc[1] = "done" /\ path[1] = "recovered"
    /\ log[1].panicValue = ForwardPanic /\ log[1].reserves = 1
    /\ Len(log[1].records) = 1
    /\ pc[2] = "forwarding"

(***************************************************************************)
(* Termination of DialBestUpstream (SpecRetryLive).                        *)
(***************************************************************************)
\* C34: every DialBestUpstream call returns, also when the policy chooses the
\* upstream that refuses every connection again and again: it asks the
\* policy at most once more than dials can fail before the deadline, and a
\* call that returns an error returns the policy's or the deadline's.
C34_DialBestUpstreamReturns ==
    /\ \A k \in DialCallers :
          (pc[k] \in {"dial_begin", "choose", "dialing", "connected"})
             ~> (ReturnedConn(k) \/ ReturnedError(k))
    /\ [](\A k \in DialCallers :
            /\ CountCalls(events[k], "ChooseBestUpstream") <= MaxDialAttempts + 1
            /\ ReturnedError(k) => path[k] \in {"dial_error", "dial_timeout"})

\* a call chose U_bad on every attempt until the deadline and returned the
\* deadline error
C34_Witness ==
    \E k \in DialCallers :
        /\ ReturnedError(k) /\ path[k] = "dial_timeout"
        /\ CountCalls(events[k], "ChooseBestUpstream") = MaxDialAttempts + 1
        /\ CountCalls(events[k], "DialFailed") = MaxDialAttempts
        /\ \A i \in DOMAIN events[k] : events[k][i][2] = U_bad

(***************************************************************************)
(* Properties of the probe workers (SpecPool).                             *)
(***************************************************************************)
\* C35: a probe worker has sent one report for each dial that returned, and
\* it dials while it has none outstanding; every report is about the
\* worker's own upstream, is CheckSuccess without symptom exactly when the
\* dial succeeded and CheckFail with the dial's error otherwise; the
\* connection of every successful dial was closed; and a worker that waits
\* for its ticker can probe again whatever the tracker believes about its
\* upstream.
C35_OneReportPerProbe ==
    \A i \in DOMAIN pool.workers :
        LET w == pool.workers[i] IN
        /\ w.sent = w.dials - (IF w.pc = "dialing" THEN 1 ELSE 0)
        /\ w.closes = w.oks /\ w.oks <= w.sent
        /\ w.sent > 0
              => /\ w.last.Upstream = w.upstream
                 /\ w.last.CheckResult \in {CheckSuccess, CheckFail}
                 /\ w.last.CheckResult = CheckSuccess <=> w.last.Symptom = ErrNil
                 /\ w.last.CheckResult = CheckFail <=> w.last.Symptom = ProbeDialError
        /\ w.sent = 0 => w.last = NoHealthReport
        /\ (w.oks = 0 /\ w.sent >= MinFailuresToInferUnhealthy)
              => beliefStateByUpstream[w.upstream].state = UNHEALTHY
                 \/ \E j \in DOMAIN pool.workers \ {i} :
                       pool.workers[j].upstream = w.upstream /\ pool.workers[j].oks > 0
        /\ (w.pc = "ticking" /\ pool.reports < MaxProbes) => ENABLED PW_Tick(i)

\* a worker probes its upstream again after its own two failed probes made
\* the tracker believe the upstream unhealthy
C35_Witness ==
    \E i \in DOMAIN pool.workers :
        LET w == pool.workers[i] IN
        /\ w.pc = "dialing" /\ w.dials = 3 /\ w.sent = 2 /\ w.oks = 0
        /\ w.last = [Upstream |-> w.upstream, CheckResult |-> CheckFail,
                     Symptom |-> ProbeDialError]
        /\ beliefStateByUpstream[w.upstream].state = UNHEALTHY

(***************************************************************************)
(* The handshake of Forward and its copy workers (SpecForward).            *)
(***************************************************************************)
\* the task of worker x: released and not taken, being copied, or copied
\* with its result not yet collected
TaskOf(f, x) ==
    f.w[x].In + (IF f.w[x].g \in {"copying", "sending"} THEN 1 ELSE 0)
       + Len(f.w[x].Out)

DeadlineFailures ==
    {"unable to set client conn deadline", "unable to set upstream conn deadline"}

\* C36: a copy worker has at most one task; a task is released to it only by
\* the step that begins a period, when the worker is idle, the result of its
\* previous task is collected and its source has not reported EOF; a worker
\* whose work is done has no task; and a step that records a failure to set
\* a deadline releases nothing.
C36_Handshake ==
    /\ [](\A x \in FwdWorkers :
            /\ TaskOf(fwd, x) <= 1
            /\ ~fwd.w[x].WorkRemaining => TaskOf(fwd, x) = 0)
    /\ [][\A x \in FwdWorkers :
            /\ fwd'.w[x].In > fwd.w[x].In
                  => /\ fwd.pc = "period" /\ fwd'.pc = "select"
                     /\ fwd'.periods = fwd.periods + 1
                     /\ TaskOf(fwd, x) = 0
                     /\ fwd.periods > 0 => fwd.w[x].TaskDone
                     /\ fwd.w[x].WorkRemaining
                     /\ ~fwd.eof[CopySrc(x)]
                     /\ ~hasFailed(fwd')
            /\ (\E i \in DOMAIN fwd'.failures :
                    i > Len(fwd.failures) /\ fwd'.failures[i] \in DeadlineFailures)
                  => fwd'.w[x].In = fwd.w[x].In /\ fwd'.w[x].TaskDone = fwd.w[x].TaskDone]_vars

\* the second period: the worker that saw the end of its stream in the first
\* has no task, the other one has been released again
C36_Witness ==
    /\ fwd.pc = "select" /\ fwd.periods = 2
    /\ ~fwd.w["cu"].WorkRemaining /\ fwd.w["cu"].TaskDone /\ TaskOf(fwd, "cu") = 0
    /\ fwd.w["uc"].WorkRemaining /\ fwd.w["uc"].In = 1

(***************************************************************************)
(* Saturation of the belief counters (SpecTracker).                        *)
(***************************************************************************)
\* C37: the counters of a registered upstream stay within 0 and their
\* thresholds, and after a run of equal reports at least as long as the
\* threshold the counter of that result is the threshold, for every
\* threshold of the configurations.
C37_CountersSaturate ==
    \A u \in reports.registered :
        LET s == beliefStateByUpstream[u]
            cfg == reports.cfg
        IN  /\ 0 <= s.failures /\ s.failures <= cfg.MinFailuresToInferUnhealthy
            /\ 0 <= s.successes /\ s.successes <= cfg.MinSuccessesToInferHealthy
            /\ (RunOf(u).result = CheckFail
                  /\ RunOf(u).n >= cfg.MinFailuresToInferUnhealthy)
                  => s.failures = cfg.MinFailuresToInferUnhealthy
            /\ (RunOf(u).result = CheckSuccess
                  /\ RunOf(u).n >= cfg.MinSuccessesToInferHealthy)
                  => s.successes = cfg.MinSuccessesToInferHealthy

\* what the code does with MinFailuresToInferUnhealthy = 255: the failure
\* after the 255th takes the counter from 255 to 0
C37_FailuresWrapToZero ==
    \E u \in reports.registered :
        /\ reports.cfg.MinFailuresToInferUnhealthy = MaxUint8
        /\ RunOf(u) = [result |-> CheckFail, n |-> MaxUint8 + 1]
        /\ beliefStateByUpstream[u].failures = 0
        /\ beliefStateByUpstream[u].state = UNHEALTHY

(***************************************************************************)
(* Quiescence of the server (Spec).                                        *)
(***************************************************************************)
\* no handler goroutine is running: every connection is still to be accepted
\* or its Handle call has returned
Quiescent == \A k \in Conns : pc[k] \in {"new", "done"}

\* C38: whenever no connection is being handled, the reserver holds no entry
\* and the policy counts no connection to any upstream.
C38_NoLeakAtQuiescence ==
    Quiescent
       => /\ DOMAIN resByClient = {}
          /\ \A u \in Upstreams : Get(connectionCount, u) = 0

\* every connection has been handled: one was forwarded, one ran into the
\* dial deadline and one was refused by the rate limiter
C38_Witness ==
    /\ \A k \in Conns : pc[k] = "done"
    /\ \E i \in Conns, j \in Conns, k \in Conns :
          /\ path[i] = "forwarded" /\ path[j] = "dial_timeout"
          /\ path[k] = "rate_limited"

(***************************************************************************)
(* Authorization in the handler chain (SpecAuthzDial).                     *)
(***************************************************************************)
\* C40: the upstream a connection dials, is connected to or forwards to is
\* one of the upstreams the authorizer grants to the client of that connection.
C40_DialedIsAuthorized ==
    \A k \in Conns :
        up[k] # NoUpstream => up[k] \in StaticAuthorizer(azConfig, cid[k])

\* two connections of different clients are forwarded at once, each to the
\* only upstream its client is granted, and the grants differ
C40_Witness ==
    \E i \in Conns, j \in Conns :
        /\ pc[i] = "forwarding" /\ pc[j] = "forwarding"
        /\ cid[i] # cid[j]
        /\ StaticAuthorizer(azConfig, cid[i]) = {up[i]}
        /\ StaticAuthorizer(azConfig, cid[j]) = {up[j]}
        /\ up[i] # up[j]

(***************************************************************************)
(* Forward and its copy goroutines never wait for ever (SpecForwardDrain). *)
(***************************************************************************)
\* Forward waits in the select of its inner loop, or it has returned and a
\* copy goroutine is still there
Waiting ==
    \/ InnerLoopRuns(fwd)
    \/ fwd.pc = "returned" /\ \E x \in FwdWorkers : fwd.w[x].g # "exited"

\* C39: the task channel of a worker is empty whenever Forward is about to
\* release tasks, so releaseTask does not block; the result channel of a
\* worker is empty whenever the worker is about to send, so the send does not
\* block; the inner loop of a period always ends; and once Forward has
\* returned, on any path, both copy goroutines exit.
C39_NoDeadlockNoLeak ==
    /\ [](fwd.pc = "period" => \A x \in FwdWorkers : fwd.w[x].In = 0)
    /\ [](\A x \in FwdWorkers : fwd.w[x].g = "sending" => fwd.w[x].Out = <<>>)
    /\ Waiting ~> ~Waiting

\* Forward returned with a failure while one worker was still in io.Copy and
\* the other had not taken its task; both goroutines have exited since, and
\* the results nobody collected stay in the result channels
C39_Witness ==
    /\ fwd.pc = "returned" /\ fwd.result = "AggregateError"
    /\ \A x \in FwdWorkers :
          /\ fwd.w[x].g = "exited"
          /\ Len(fwd.w[x].Out) = 1
          /\ ~fwd.w[x].TaskDone

====
